---- MODULE Spec2Model ----
(***************************************************************************)
(* Model of the generation relay of sackboy-studio:                        *)
(*   - the streaming route  POST /api/stylize-stream                       *)
(*       src/app/api/stylize-stream/route.ts, lines 234-986                *)
(*   - the non-streaming route POST /api/stylize                           *)
(*       src/app/api/stylize/route.ts                                      *)
(* One request is modelled.  Every action is the synchronous code that     *)
(* runs between two await points of the handler (or one timer callback,    *)
(* or one event of the environment).  Text is a sequence of one-character  *)
(* strings, so that a chunk boundary can fall anywhere in a line.          *)
(* The pure functions of src/lib/validation.ts (validateUpload, parseForm) *)
(* and the two versions of buildPrompt (src/lib/prompt.ts and              *)
(* src/unnamed/part_003) are applied to drawn inputs by specifications of  *)
(* their own.                                                              *)
(***************************************************************************)
EXTENDS Integers, Sequences, FiniteSets, TLC

\* ------------------------------------------------------------------ bounds
\* the bodies the decoder is run on alone hold at most MaxLines lines
MaxLines == 2
\* the bodies a whole request is run on hold at most MaxBodyLines lines
MaxBodyLines == 2
\* in a whole request the body arrives in chunks of a multiple of ChunkStep
\* bytes, the last chunk being what is left (the decoder alone is run on
\* every way of splitting the body)
ChunkStep == 5
\* at most MaxTicks firings of the synthetic-progress interval are explored
MaxTicks == 1
\* file sizes this far below and above MAX_SIZE are tried
SizeSpread == 1
\* a custom prompt is made of at most MaxCustomLen pieces
MaxCustomLen == 2
\* the user clicks Generate at most MaxClicks times
MaxClicks == 2
\* a stream the page reads holds at most MaxClientEvents events
MaxClientEvents == 2

\* ------------------------------------------------------- program constants
\* validation.ts lines 3-4
ACCEPT == {"image/png", "image/jpeg", "image/webp"}
MAX_SIZE == 8 * 1024 * 1024
\* non-streaming route: images per upstream call, and cap of the field n
MAX_PER_REQUEST == 10
MAX_TOTAL == 100

\* ------------------------------------------------------------------- text
NL == "\n"
DataPrefix == <<"d", "a", "t", "a", ":", " ">>
EventPrefix == <<"e", "v", "e", "n", "t", ":", " ">>

\* String.prototype.startsWith
StartsWith(s, p) == Len(s) >= Len(p) /\ SubSeq(s, 1, Len(p)) = p

\* String.prototype.split('\n'): k newlines give k+1 pieces
RECURSIVE SplitNL(_, _, _)
SplitNL(s, i, cur) ==
  IF i > Len(s) THEN <<cur>>
  ELSE IF s[i] = NL THEN <<cur>> \o SplitNL(s, i + 1, <<>>)
  ELSE SplitNL(s, i + 1, Append(cur, s[i]))

Split(s) == SplitNL(s, 1, <<>>)

\* the array after lines.pop()
Front(sq) == SubSeq(sq, 1, Len(sq) - 1)
\* the value of lines.pop() || ''
Last(sq) == sq[Len(sq)]

\* String.prototype.trim (blank and carriage return are the white space here)
IsSpace(c) == c \in {" ", "\r"}
RECURSIVE TrimLeft(_)
TrimLeft(s) == IF s # <<>> /\ IsSpace(s[1]) THEN TrimLeft(Tail(s)) ELSE s
RECURSIVE TrimRight(_)
TrimRight(s) == IF s # <<>> /\ IsSpace(s[Len(s)]) THEN TrimRight(Front(s)) ELSE s
Trim(s) == TrimRight(TrimLeft(s))

\* ------------------------------------------------------ upstream frames
\* The JSON payload of an upstream frame is written  { T [image] [index] }
\*   T      "P" the partial_image type of the endpoint called,
\*          "C" its completed type, "U" any other type
\*   image  the b64_json field, one of ImageChars, absent when there is none
\*   index  the partial_image_index field, one digit, absent when there is none
TypeChars == {"P", "C", "U"}
ImageChars == {"a", "b", "c", "d"}
IndexChars == {"0", "1", "2"}
NoImage == ""
NoIndex == -1
IndexOf(c) == CASE c = "0" -> 0 [] c = "1" -> 1 [] c = "2" -> 2

ParseError == [ok |-> FALSE, type |-> "", b64_json |-> NoImage, partial_image_index |-> NoIndex]

\* JSON.parse of a payload: a record, or ParseError when JSON.parse throws
ParseJSON(s) ==
  IF Len(s) < 3 \/ s[1] # "{" \/ s[Len(s)] # "}" \/ s[2] \notin TypeChars
  THEN ParseError
  ELSE LET body == SubSeq(s, 3, Len(s) - 1) IN
       IF body = <<>> THEN
         [ok |-> TRUE, type |-> s[2], b64_json |-> NoImage, partial_image_index |-> NoIndex]
       ELSE IF Len(body) = 1 /\ body[1] \in ImageChars THEN
         [ok |-> TRUE, type |-> s[2], b64_json |-> body[1], partial_image_index |-> NoIndex]
       ELSE IF Len(body) = 2 /\ body[1] \in ImageChars /\ body[2] \in IndexChars THEN
         [ok |-> TRUE, type |-> s[2], b64_json |-> body[1],
          partial_image_index |-> IndexOf(body[2])]
       ELSE ParseError

\* the lines an upstream stream is made of
LinePartial == DataPrefix \o <<"{", "P", "a", "0", "}">>
LinePartial2 == DataPrefix \o <<"{", "P", "b", "2", "}">>
LineCompleted == DataPrefix \o <<"{", "C", "c", "}">>
LineCompleted2 == DataPrefix \o <<"{", "C", "d", "}">>
LineUnknown == DataPrefix \o <<"{", "U", "a", "}">>
LineMalformed == DataPrefix \o <<"{", "P">>
LineEvent == EventPrefix \o <<"x">>
LineBlank == <<>>
UpstreamLines ==
  {LinePartial, LinePartial2, LineCompleted, LineCompleted2, LineUnknown, LineMalformed,
   LineEvent, LineBlank}

\* the lines the bodies of a whole request are made of
BodyLines == {LinePartial, LineCompleted}

\* the sequences of at most n lines of L
RECURSIVE LineSeqs(_, _)
LineSeqs(L, n) ==
  IF n = 0 THEN {<<>>}
  ELSE LET shorter == LineSeqs(L, n - 1) IN
       shorter \cup {Append(ls, l) : ls \in {x \in shorter : Len(x) = n - 1}, l \in L}

\* the bytes of a sequence of lines; the last line ends in a newline iff terminated
RECURSIVE Join(_, _)
Join(ls, terminated) ==
  IF ls = <<>> THEN <<>>
  ELSE IF Len(ls) = 1 THEN (IF terminated THEN Append(ls[1], NL) ELSE ls[1])
  ELSE Append(ls[1], NL) \o Join(Tail(ls), terminated)

\* the bodies the decoder is run on alone
Streams == {Join(ls, t) : ls \in LineSeqs(UpstreamLines, MaxLines), t \in BOOLEAN}
\* the bodies the image endpoint streams in a whole request
Bodies == {Join(ls, t) : ls \in LineSeqs(BodyLines, MaxBodyLines), t \in BOOLEAN}


\* ------------------------------------------------------------- messages
\* A message is the sequence of the pieces its template literal joins.
MsgTimeout == <<"Request timeout - generation took too long">>
MsgAborted == <<"Request was cancelled or timed out">>
MsgGenerationFailed == <<"Generation failed">>
MsgNoKey == <<"OpenAI API key not configured">>
MsgFileRequired == <<"Image file required for this generation mode">>
MsgNoStreaming == <<"No streaming response available">>
MsgNoReader == <<"No reader available from gpt-image-1 response">>
MsgMissingImage == <<"Missing image.">>
MsgNotBlob == <<"Failed to execute 'append' on 'FormData': parameter 2 is not of type 'Blob'.">>
MsgUploadType == <<"Please upload a PNG, JPG, or WebP image.">>
MsgUploadSize == <<"Image is too large (max 8 MB).">>
MsgZod == <<"zod: invalid value">>
MsgFetchFailed == <<"fetch failed">>
MsgTerminated == <<"terminated">>
MsgSyntax == <<"Unexpected token in JSON">>
MsgUnknown == "Unknown error"

Modes == {"transform", "add_sackboy", "random_crypto", "pokemon_card"}
\* modes that edit an uploaded image
UploadModes == {"transform", "add_sackboy"}
\* modes whose prompt comes from an auxiliary text call
AuxModes == {"random_crypto", "pokemon_card"}

MsgIncomplete(m) ==
  IF m = "pokemon_card"
  THEN <<"Sackmon card generation incomplete - no final image received">>
  ELSE <<"Generation incomplete - no final image received">>

MsgNoResponse(m) ==
  CASE m = "pokemon_card" -> <<"No response received from gpt-image-1 for Sackmon card">>
    [] m = "random_crypto" -> <<"No response received from gpt-image-1">>
    [] OTHER -> <<"No response received from OpenAI">>

MsgNoPrompt(m) ==
  IF m = "pokemon_card"
  THEN <<"No Sackmon card prompt generated from OpenAI Responses API">>
  ELSE <<"No prompt generated from OpenAI Responses API">>

MsgGenerating(m) ==
  IF m = "pokemon_card" THEN <<"Generating Sackmon card prompt...">>
  ELSE <<"Generating creative prompt...">>

MsgCreating(m) ==
  IF m = "pokemon_card" THEN <<"Creating Sackmon trading card...">>
  ELSE <<"Creating Sackboy memecoin artwork...">>

\* the message of a firing of the progress interval, one of a fixed list
\* picked at random; the pick is not told apart
MsgWaiting == <<"(one of the waiting messages)">>

MsgFinalizing(m) ==
  IF m = "pokemon_card" THEN <<"Finalizing Sackmon card...">> ELSE <<"Finalizing...">>

\* ----------------------------------------------------- upstream responses
\* the raw text of the body of a non-success response
BodyJsonMsg == "{\"error\":{\"message\":\"rate limited\"}}"
BodyJsonNoMsg == "{\"error\":{}}"
BodyText == "Bad Gateway"
ErrorBodies == {BodyJsonMsg, BodyJsonNoMsg, BodyText}
Statuses == {"429", "500"}
NoRes == [status |-> "", body |-> ""]
ErrorResponses == [status : Statuses, body : ErrorBodies]

\* res.json() of an error body: does it parse, and the value of error.message
\* ("" when there is none)
JsonParses(body) == body \in {BodyJsonMsg, BodyJsonNoMsg}
ErrorMessageOf(body) == IF body = BodyJsonMsg THEN "rate limited" ELSE ""

\* err?.error?.message  after  res.json().catch(() => ({}))
CaughtMessage(body) == IF JsonParses(body) THEN ErrorMessageOf(body) ELSE ""

\* the bodies of a successful auxiliary (text) response:
\* output[0].content[0].text, or NotJson when res.json() throws
NotJson == "<not json>"
AuxTexts == {"a sackboy prompt", " a sackboy prompt ", "", " ", NotJson}
TrimText(t) ==
  CASE t = " a sackboy prompt " -> "a sackboy prompt"
    [] t = " " -> ""
    [] OTHER -> t

\* --------------------------------------------------------------- events
NoProgress == -1
NoUrl == ""
BlobUrl == "https://blob.vercel-storage.com/key"
DataUrl(b64) == <<"data:image/png;base64,", b64>>

ProgressEv(p, m) ==
  [type |-> "progress", progress |-> p, message |-> m,
   imageBase64 |-> <<>>, partialIndex |-> NoIndex, imageUrl |-> NoUrl]
PartialEv(p, m, b64, idx) ==
  [type |-> "partial", progress |-> p, message |-> m,
   imageBase64 |-> DataUrl(b64), partialIndex |-> idx, imageUrl |-> NoUrl]
CompleteEv(b64, url) ==
  [type |-> "complete", progress |-> 100, message |-> <<>>,
   imageBase64 |-> DataUrl(b64), partialIndex |-> NoIndex, imageUrl |-> url]
ErrorEv(m) ==
  [type |-> "error", progress |-> NoProgress, message |-> m,
   imageBase64 |-> <<>>, partialIndex |-> NoIndex, imageUrl |-> NoUrl]

\* ---------------------------------------------------------------- state
VARIABLES
  route,            \* "stream" (/api/stylize-stream) or "plain" (/api/stylize)
  pc,               \* the await point the handler is suspended at
  mode,             \* generationMode of the parsed form
  keepPrivate,      \* private !== 'false'
  privateField,     \* the form field private, as it was sent
  form,             \* the other fields of the multipart form, as they were sent
  upload,           \* validation.ts: the file handed to the two checks
  uploadMode,       \* validation.ts: the generationMode sent with that file
  clientVerdict,    \* validation.ts: what validateUpload returned for it
  serverVerdict,    \* validation.ts: what parseForm did with it
  options,          \* prompt.ts: the PromptOptions buildPrompt is called with
  built,            \* prompt.ts: what buildPrompt of src/lib/prompt.ts returned
  builtCustomFirst, \* what buildPrompt of src/unnamed/part_003 returned
  page,             \* page.tsx: the React state of the page
  handlers,         \* page.tsx: the generations started by the clicks so far
  nField,           \* stylize/route.ts: the form field n of the request whose batches are followed
  streams,          \* two relay requests at once: of each, its controller, position and upstream body
  locals,           \* two relay requests at once: the let variables of each call of start()
  prompt,           \* generatedPrompt of the auxiliary call
  currentProgress,  \* let currentProgress
  ticks,            \* firings of the progress interval so far
  events,           \* the events enqueued on the output stream, in order
  closed,           \* controller.close() has run
  cancelled,        \* the consumer has cancelled the output stream
  lateWrite,        \* an enqueue was attempted after controller.close()
  timeoutPending,   \* the setTimeout of REQUEST_TIMEOUT is pending
  timeoutFired,     \* the callback of that setTimeout has run
  progressInterval, \* let progressInterval is not null
  intervalActive,   \* the setInterval timer is pending
  aborted,          \* abortController.signal.aborted
  auxCall,          \* state of the call to /v1/responses
  imgCall,          \* state of the call to the image endpoint
  storeCall,        \* state of the PUT to the blob store
  res,              \* the non-success response whose body is being read
  upstream,         \* bytes of the response body not yet read
  received,         \* bytes of the response body read so far
  buffer,           \* let buffer
  partialCount,     \* let partialCount
  finalImage,       \* let finalImage
  hasReceivedData,  \* let hasReceivedData
  n,                \* non-streaming route: let n, after normalisation
  batches,          \* non-streaming route: const batches
  calls,            \* non-streaming route: the state of the call of each batch
  response          \* non-streaming route: the JSON response returned

relayVars == <<mode, keepPrivate, privateField, prompt, currentProgress, ticks>>
outVars == <<events, closed, cancelled, lateWrite>>
timerVars == <<timeoutPending, timeoutFired, progressInterval, intervalActive, aborted>>
netVars == <<auxCall, imgCall, storeCall, res>>
decVars == <<upstream, received, buffer, partialCount, finalImage, hasReceivedData>>
plainVars == <<n, batches, calls, response>>
uploadVars == <<upload, uploadMode, clientVerdict, serverVerdict>>
promptVars == <<options, built, builtCustomFirst>>
clientVars == <<page, handlers>>
batchVars == <<nField>>
twoVars == <<streams, locals>>
pureVars == <<uploadVars, promptVars, clientVars, batchVars, twoVars>>
vars == <<route, form, pureVars, pc, relayVars, outVars, timerVars, netVars, decVars, plainVars>>

\* controller.enqueue throws unless the stream is still readable
Writable == ~closed /\ ~cancelled

\* a fetch given abortController.signal is rejected once the signal is raised
AbortCall(c) == IF c \in {"inflight", "answered", "streaming"} THEN "aborted" ELSE c


\* ------------------------------------------------- exits of the handler
\* when start() returns or throws, the locals of the read loop are gone, and
\* what is left of the response body is never read
LocalsDropped ==
  /\ upstream' = <<>>
  /\ received' = <<>>
  /\ buffer' = <<>>
  /\ partialCount' = 0
  /\ finalImage' = NoImage
  /\ hasReceivedData' = FALSE

\* a cleanup() that leaves the interval running
CleanupIntervalSkipped(handle, active) == active
\* cleanup(): clearInterval when the handle is set
CleanupInterval(handle, active) == IF handle THEN FALSE ELSE active
\* cleanup(): clearTimeout when the handle is set (it is from the first line on)
CleanupTimeout(pending) == FALSE
\* cleanup(): abortController.abort() unless already aborted
CleanupAbort(sig) == TRUE
\* an exit that leaves the stream open after its terminal event
ExitStaysOpen == FALSE
\* the exits call controller.close() after cleanup()
ExitCloses == TRUE

\* the message the catch block reports for an exception (name, message)
CatchMessage(name, msg) ==
  IF name = "AbortError" THEN MsgAborted
  ELSE IF msg = <<>> THEN MsgGenerationFailed ELSE msg

\* a URL that is reported whether or not the PUT succeeded
StoredUrlAlways(ok) == BlobUrl
\* try { imageUrl = await maybeStoreImage(...) } catch { }: the URL when the
\* PUT succeeded, nothing when maybeStoreImage threw
StoredUrl(ok) == IF ok THEN BlobUrl ELSE NoUrl

\* An exit that reports an error: enqueue(error); cleanup(); close().  It is
\* the catch block, or one of the inline error returns, which differ in the
\* message only.  On a stream that is no longer writable the enqueue throws,
\* the catch block's own enqueue throws again, and start() ends without
\* cleanup().  a, i, h, t are the calls and the interval as the code before
\* the exit left them.
ExitErrorAfter(sent, msg, a, i, h, t) ==
  /\ pc' = "done"
  /\ LocalsDropped
  /\ UNCHANGED timeoutFired
  /\ progressInterval' = h
  /\ IF Writable
     THEN /\ events' = Append(events \o sent, ErrorEv(msg))
          /\ closed' = ExitCloses
          /\ timeoutPending' = CleanupTimeout(timeoutPending)
          /\ intervalActive' = CleanupInterval(h, t)
          /\ aborted' = CleanupAbort(aborted)
          /\ auxCall' = AbortCall(a)
          /\ imgCall' = AbortCall(i)
          /\ UNCHANGED <<cancelled, lateWrite>>
     ELSE /\ lateWrite' = (lateWrite \/ closed)
          /\ intervalActive' = t
          /\ auxCall' = a
          /\ imgCall' = i
          /\ UNCHANGED <<events, closed, cancelled, timeoutPending, timeoutFired, aborted>>

ExitError(msg, a, i, h, t) == ExitErrorAfter(<<>>, msg, a, i, h, t)

\* The exit that reports the result: enqueue(complete); cleanup(); close().
ExitComplete(url, i) ==
  /\ pc' = "done"
  /\ LocalsDropped
  /\ UNCHANGED timeoutFired
  /\ IF Writable
     THEN /\ events' = Append(events, CompleteEv(finalImage, url))
          /\ closed' = ExitCloses
          /\ timeoutPending' = CleanupTimeout(timeoutPending)
          /\ intervalActive' = CleanupInterval(progressInterval, intervalActive)
          /\ aborted' = CleanupAbort(aborted)
          /\ UNCHANGED <<cancelled, lateWrite>>
     ELSE /\ lateWrite' = (lateWrite \/ closed)
          /\ UNCHANGED <<events, closed, cancelled, timeoutPending, timeoutFired, intervalActive, aborted>>
  /\ imgCall' = i
  /\ UNCHANGED <<progressInterval, auxCall>>

\* sendProgress on a stream that is no longer writable: currentProgress is
\* assigned, the enqueue throws, the catch block's enqueue throws again
SendProgressThrows(p) ==
  /\ pc' = "done"
  /\ LocalsDropped
  /\ currentProgress' = p
  /\ lateWrite' = (lateWrite \/ closed)
  /\ UNCHANGED <<events, closed, cancelled>>

\* ------------------------------------------------------------ the form
\* what parseForm makes of the multipart form: the file field, and whether
\* the size, styleStrength and generationMode fields are values of their enums
Files == {"none", "ok", "badtype", "toolarge"}
FormModes == Modes \cup {"bogus"}

\* ------------------------------------------------------- buildPrompt
\* A prompt is a sequence of pieces: a piece is one sentence of the source, a
\* space, or a phrase the user typed.  parts.join(' ') puts one space between
\* two parts, trim() takes the spaces off both ends.
Space == " "
SentenceAdd == "Add a single Sackboy character from Little Big Planet into the uploaded image, with burlap plush textures, yarn stitching, and button-like eyes."
SentenceBlend == "The Sackboy should blend naturally into the existing scene and environment."
SentencePreserveAll == "Preserve the original characters and composition exactly as they are."
SentenceMaybe == "Maybe if there is the case for that, replace a secondary object from the image with a sackboy instead of directly adding the sackboy to the image. For example, if the main character holds something in its hand, it can be replaced. Or if the main character showcases the secondary object in a way. Shouldnt always be the case"
SentenceEnsure == "Ensure that the overall image style, lighting, and atmosphere remain faithful to the source photo."
SentenceAdded == "The added Sackboy should have cozy handcrafted aesthetics: knit seams, soft felt surfaces, subtle fabric fraying, photorealistic craft materials."
SentenceTransform == "Transform all characters from the uploaded image into Sackboy-style figures from Little Big Planet, with burlap plush textures, yarn stitching, and button-like eyes."
SentencePreserveEach == "Preserve each subject's unique facial expression, posture, identity, and the original environment and composition."
SentenceEmphasize == "Emphasize cozy handcrafted aesthetics: knit seams, soft felt surfaces, subtle fabric fraying, photorealistic craft materials."
SentenceEmphasizeKeep == "Emphasize cozy handcrafted aesthetics: knit seams, soft felt surfaces, subtle fabric fraying, photorealistic craft materials. Keep it easily relatable to original image"
SentenceCaptions == "Remove any existing captions or overlaid text, leaving clean space so a new caption can be added later."
SentenceNoText == "No text, no logos, no watermarks, no trademarks."
SentenceDiorama == "Optional setting: a handcrafted tabletop diorama with felt scenery, cardboard props, yarn textures, and warm bokeh craft lights."

\* a builder that pushes the medium sentence whatever the strength
StyleClauseMedium(strength) ==
  "Moderate Sackboy stylisation; clear burlap and stitched plush qualities visible."
\* the sentence of a style strength
StyleClause(strength) ==
  CASE strength = "low" -> "Subtle Sackboy stylisation; delicate knit and stitch overlay without overpowering realism."
    [] strength = "medium" -> "Moderate Sackboy stylisation; clear burlap and stitched plush qualities visible."
    [] strength = "high" -> "Strong Sackboy stylisation; pronounced knit textures, bold seams, and toy-like craft details."

\* the sentences of the source in which the word diorama occurs
DioramaSentences == {SentenceDiorama}

\* the sentences the two versions open a default prompt with
BaseSentences ==
  {SentenceAdd, SentenceBlend, SentencePreserveAll, SentenceMaybe, SentenceEnsure,
   SentenceAdded, SentenceTransform, SentencePreserveEach, SentenceEmphasize,
   SentenceEmphasizeKeep}

\* parts.join(' ')
RECURSIVE JoinSpace(_)
JoinSpace(parts) ==
  IF parts = <<>> THEN <<>>
  ELSE IF Len(parts) = 1 THEN parts[1]
  ELSE parts[1] \o <<Space>> \o JoinSpace(Tail(parts))

\* the PromptOptions: generationMode and customPrompt may be left out
Strengths == {"low", "medium", "high"}
PromptModes == {"absent", "transform", "add_sackboy", "random_crypto", "pokemon_card"}
CustomPieces == {Space, "make it blue", SentenceNoText, SentenceEnsure}
CustomTexts == LineSeqs(CustomPieces, MaxCustomLen)
Customs == {[given |-> FALSE, text |-> <<>>]} \cup {[given |-> TRUE, text |-> t] : t \in CustomTexts}
PromptOptions ==
  [styleStrength : Strengths, diorama : BOOLEAN, removeCaptions : BOOLEAN,
   generationMode : PromptModes, customPrompt : Customs]
NoOptions ==
  [styleStrength |-> "none", diorama |-> FALSE, removeCaptions |-> FALSE,
   generationMode |-> "absent", customPrompt |-> [given |-> FALSE, text |-> <<>>]]

\* generationMode = 'transform' when it is left out
ModeOf(o) == IF o.generationMode = "absent" THEN "transform" ELSE o.generationMode
\* customPrompt && customPrompt.trim()
HasCustom(o) == o.customPrompt.given /\ Trim(o.customPrompt.text) # <<>>

\* what a call of buildPrompt gives: the string returned, or a throw
NotBuilt == [done |-> FALSE, threw |-> FALSE, text |-> <<>>]
Returns(text) == [done |-> TRUE, threw |-> FALSE, text |-> text]
Throws == [done |-> TRUE, threw |-> TRUE, text |-> <<>>]

\* a common ending that is left out
CommonEndingNone == <<>>
\* src/lib/prompt.ts lines 39-40: parts.push('No text, ...')
CommonEnding == << <<SentenceNoText>> >>

\* src/lib/prompt.ts lines 13-56
buildPrompt(o) ==
  LET base == IF ModeOf(o) = "add_sackboy"
              THEN << <<SentenceAdd>>, <<SentenceBlend>>, <<SentencePreserveAll>>,
                      <<SentenceEnsure>>, <<SentenceAdded>> >>
              ELSE << <<SentenceTransform>>, <<SentencePreserveEach>>,
                      <<SentenceEnsure>>, <<SentenceEmphasize>> >>
      captions == IF o.removeCaptions THEN << <<SentenceCaptions>> >> ELSE <<>>
      style == << <<StyleClause(o.styleStrength)>> >>
      setting == IF o.diorama THEN << <<SentenceDiorama>> >> ELSE <<>>
      custom == IF HasCustom(o) THEN << Trim(o.customPrompt.text) >> ELSE <<>>
  IN Returns(JoinSpace(base \o captions \o CommonEnding \o style \o setting \o custom))

\* src/unnamed/part_003 lines 13-72: the version that puts the custom prompt
\* first and throws for random_crypto
buildPromptCustomFirst(o) ==
  LET base == IF ModeOf(o) = "add_sackboy"
              THEN << <<SentenceAdd>>, <<SentenceBlend>>, <<SentencePreserveAll>>,
                      <<SentenceMaybe>>, <<SentenceEnsure>>, <<SentenceAdded>> >>
              ELSE << <<SentenceTransform>>, <<SentencePreserveEach>>,
                      <<SentenceEnsure>>, <<SentenceEmphasizeKeep>> >>
      captions == IF o.removeCaptions THEN << <<SentenceCaptions>> >> ELSE <<>>
      style == << <<StyleClause(o.styleStrength)>> >>
      setting == IF o.diorama THEN << <<SentenceDiorama>> >> ELSE <<>>
  IN IF HasCustom(o) THEN Returns(JoinSpace(<< Trim(o.customPrompt.text) >> \o style))
     ELSE IF ModeOf(o) = "random_crypto" THEN Throws
     ELSE Returns(JoinSpace(base \o captions \o << <<SentenceNoText>> >> \o style \o setting))

\* ------------------------------------------------------------ the page
\* src/app/(site)/page.tsx.  The page holds the React state (loading, the
\* stylized image, the share URL) and what the user was shown by alert();
\* console holds what was only logged.  A handler is one generation started
\* by a click: the promise chain that converts the original image
\* ("converting"), then handleGenerate / handleGenerateRandom /
\* handleGeneratePokemonCard awaiting fetch ("fetching") and reading the
\* stream ("reading").  stream is what the relay has still to deliver to it,
\* errors the messages of the error events it was delivered, shown the image
\* it set.
NoPage ==
  [generationMode |-> "none", loading |-> FALSE, stylizedSrc |-> <<>>,
   shareUrl |-> NoUrl, alerts |-> <<>>, console |-> <<>>]
OpenPage(m) == [NoPage EXCEPT !.generationMode = m]
Handler(stage) == [stage |-> stage, stream |-> <<>>, errors |-> <<>>, shown |-> <<>>]

\* the events a relay stream can carry, and the streams made of them: at
\* most one terminal event, and nothing after it
ClientEvents ==
  {ProgressEv(10, <<"Starting OpenAI transformation...">>),
   PartialEv(35, <<"Generating... (partial ", "1", ")">>, "a", 1),
   CompleteEv("c", NoUrl), CompleteEv("c", BlobUrl),
   ErrorEv(<<"Request timed out after 4 minutes">>)}
ClientStreams ==
  {st \in LineSeqs(ClientEvents, MaxClientEvents) :
     \A i \in 1..Len(st) : st[i].type \in {"complete", "error"} => i = Len(st)}

MsgHttpError == <<"HTTP error! status: ", "500">>
MsgFailedToFetch == <<"Failed to fetch">>

\* lines 96-122: case 'error': throw new Error(data.message) sits inside the
\* try whose catch (parseError) only calls console.error, so the loop goes on
ErrorCase(pg, h, e) ==
  <<[pg EXCEPT !.console = Append(@, e.message)],
    [h EXCEPT !.errors = Append(@, e.message), !.stream = Tail(@)]>>

\* lines 96-127: the switch on data.type of one delivered event; the page
\* and the handler after it
OnEvent(pg, h, e) ==
  CASE e.type = "progress" -> <<pg, [h EXCEPT !.stream = Tail(@)]>>
    [] e.type = "complete" ->
         <<[pg EXCEPT !.stylizedSrc = e.imageBase64, !.shareUrl = e.imageUrl],
           [h EXCEPT !.stream = Tail(@), !.shown = e.imageBase64]>>
    [] e.type = "error" -> ErrorCase(pg, h, e)
    [] OTHER -> <<pg, [h EXCEPT !.stream = Tail(@)]>>

\* lines 435-448: onClick calls handleGenerateRandom / handleGeneratePokemonCard
\* at once; in an upload mode it starts fetch(originalSrc).then(blob).then(File)
\* and handleGenerate runs only when that chain has resolved
StartsOnClick(m) == IF m \in AuxModes THEN "fetching" ELSE "converting"

\* ------------------------------------------------- the two file checks
\* lines 24-28: FileSchema.parse({ type, size }): the fields zod reports, the
\* parse throws when there is one.  z.enum(ACCEPT) takes the three strings
\* only, z.number().max(MAX_SIZE) takes MAX_SIZE itself
FileSchemaIssues(file) ==
  (IF file.type \in ACCEPT THEN {} ELSE {"type"})
    \cup (IF file.size <= MAX_SIZE THEN {} ELSE {"size"})

\* the file field of the form as parseForm sees a file
FileKind(file) ==
  IF FileSchemaIssues(file) = {} THEN "ok"
  ELSE IF "type" \in FileSchemaIssues(file) THEN "badtype"
  ELSE "toolarge"

\* a validateUpload that refuses a file of exactly MAX_SIZE bytes
validateUploadBelow(file) ==
  IF file.type \notin ACCEPT THEN MsgUploadType
  ELSE IF file.size >= MAX_SIZE THEN MsgUploadSize
  ELSE <<>>
\* lines 50-55: the message validateUpload returns, <<>> for null
validateUpload(file) ==
  IF file.type \notin ACCEPT THEN MsgUploadType
  ELSE IF file.size > MAX_SIZE THEN MsgUploadSize
  ELSE <<>>

\* the files the checks are given: the three accepted types, a refused image
\* type, a type that differs in case, no type, and sizes around the ceiling
UploadTypes == ACCEPT \cup {"image/gif", "image/PNG", ""}
UploadSizes == {0} \cup ((MAX_SIZE - SizeSpread)..(MAX_SIZE + SizeSpread))
Uploads == [type : UploadTypes, size : UploadSizes]
NoUpload == [type |-> "", size |-> 0]
\* the outcome of a check: not run yet, or run with its message
NoVerdict == [done |-> FALSE, message |-> <<>>]
Verdict(msg) == [done |-> TRUE, message |-> msg]

\* the fields parseForm reads: generationMode, whether an image field was
\* sent, and whether size and styleStrength are values of their enums
Form(m, file, sizeOk, styleOk) ==
  [generationMode |-> m, image |-> (file # "none"), size |-> sizeOk,
   styleStrength |-> styleOk]
\* no form has been read yet
NoForm == Form("none", "none", TRUE, TRUE)

\* the form field private: absent, or its text
PrivateFields == {"absent", "false", "true", "FALSE"}
\* a test that takes every text but 'true' for a consent to store
KeepPrivateOnlyTrue(field) == field = "true"
\* form.get('private')?.toString() !== 'false'
KeepPrivate(field) == field # "false"

\* a parseForm that wants the image in every mode
ParseFormErrorImageAlways(m, file, sizeOk, styleOk) ==
  IF file = "none" THEN MsgMissingImage
  ELSE IF m \notin AuxModes /\ file # "ok" THEN MsgZod
  ELSE IF ~sizeOk \/ ~styleOk \/ m \notin Modes THEN MsgZod
  ELSE <<>>
\* a parseForm that checks the file and skips the three enums
ParseFormErrorFileOnly(m, file, sizeOk, styleOk) ==
  IF m \notin AuxModes /\ file = "none" THEN MsgMissingImage
  ELSE IF m \notin AuxModes /\ file # "ok" THEN MsgZod
  ELSE <<>>
\* parseForm: the message it throws, or <<>> when it returns
ParseFormError(m, file, sizeOk, styleOk) ==
  IF m \notin AuxModes /\ file = "none" THEN MsgMissingImage
  ELSE IF m \notin AuxModes /\ file # "ok" THEN MsgZod
  ELSE IF ~sizeOk \/ ~styleOk \/ m \notin Modes THEN MsgZod
  ELSE <<>>


\* ------------------------------------------- the streaming route: actions
\* lines 239-279: the timeout is armed, the first progress is sent, and the
\* handler awaits req.formData()
StartRequest ==
  /\ route = "stream" /\ pc = "start"
  /\ timeoutPending' = TRUE
  /\ UNCHANGED timeoutFired
  /\ currentProgress' = 5
  /\ events' = Append(events, ProgressEv(5, <<"Parsing request...">>))
  /\ pc' = "form"
  /\ UNCHANGED <<route, pureVars, form, plainVars, mode, keepPrivate, privateField, prompt, ticks, closed, cancelled, lateWrite,
                 progressInterval, intervalActive, aborted, netVars, decVars>>

\* lines 279-301: the form is parsed and the API key is looked up
\* lines 304-358 and 537-552: an auxiliary mode sends progress 10 and starts
\*   the text call
\* lines 738-799: an upload mode sends progress 10, 10, 15, starts the
\*   progress interval and starts the image call
ParseForm ==
  /\ route = "stream" /\ pc = "form"
  /\ \E m \in FormModes, file \in Files, sizeOk, styleOk, apiKey \in BOOLEAN,
        private \in PrivateFields :
       LET err == ParseFormError(m, file, sizeOk, styleOk) IN
       /\ form' = Form(m, file, sizeOk, styleOk)
       /\ IF err # <<>> THEN
            /\ ExitError(CatchMessage("ZodError", err), auxCall, imgCall,
                         progressInterval, intervalActive)
            /\ UNCHANGED <<route, pureVars, plainVars, relayVars, storeCall, res>>
          ELSE IF ~apiKey THEN
            /\ ExitError(MsgNoKey, auxCall, imgCall, progressInterval, intervalActive)
            /\ mode' = m /\ keepPrivate' = KeepPrivate(private) /\ privateField' = private
            /\ UNCHANGED <<route, pureVars, plainVars, prompt, currentProgress, ticks, storeCall, res>>
          ELSE IF ~Writable THEN
            /\ SendProgressThrows(10)
            /\ mode' = m /\ keepPrivate' = KeepPrivate(private) /\ privateField' = private
            /\ UNCHANGED <<route, pureVars, plainVars, prompt, ticks, timerVars, netVars>>
          ELSE IF m \in AuxModes THEN
            /\ mode' = m /\ keepPrivate' = KeepPrivate(private) /\ privateField' = private
            /\ currentProgress' = 10
            /\ events' = Append(events, ProgressEv(10, MsgGenerating(m)))
            /\ auxCall' = "inflight"
            /\ pc' = "aux_fetch"
            /\ UNCHANGED <<route, pureVars, plainVars, prompt, ticks, closed, cancelled, lateWrite, timerVars,
                           imgCall, storeCall, res, decVars>>
          ELSE IF file = "none" THEN
            /\ ExitErrorAfter(<<ProgressEv(10, <<"Starting OpenAI transformation...">>)>>,
                              MsgFileRequired, auxCall, imgCall, progressInterval,
                              intervalActive)
            /\ mode' = m /\ keepPrivate' = KeepPrivate(private) /\ privateField' = private
            /\ currentProgress' = 10
            /\ UNCHANGED <<route, pureVars, plainVars, prompt, ticks, storeCall, res>>
          ELSE
            /\ mode' = m /\ keepPrivate' = KeepPrivate(private) /\ privateField' = private
            /\ currentProgress' = 15
            /\ events' = events \o
                 << ProgressEv(10, <<"Starting OpenAI transformation...">>),
                    ProgressEv(10, <<"Starting OpenAI transformation...">>),
                    ProgressEv(15, <<"Connecting to OpenAI...">>) >>
            /\ progressInterval' = TRUE
            /\ intervalActive' = TRUE
            /\ imgCall' = "inflight"
            /\ pc' = "img_fetch"
            /\ UNCHANGED <<route, pureVars, plainVars, prompt, ticks, closed, cancelled, lateWrite, timeoutPending, timeoutFired,
                           aborted, auxCall, storeCall, res, decVars>>

\* lines 308-363, 541-557: the text call settles.  It is rejected (by the
\* abort signal, or by the network), or answers with a non-success status,
\* or answers with a success status
AuxResponse ==
  /\ route = "stream" /\ pc = "aux_fetch"
  /\ IF aborted THEN
       /\ ExitError(CatchMessage("AbortError", <<>>), auxCall, imgCall,
                    progressInterval, intervalActive)
       /\ UNCHANGED <<route, pureVars, form, plainVars, relayVars, storeCall, res>>
     ELSE
       \/ /\ ExitError(CatchMessage("TypeError", MsgFetchFailed), "failed", imgCall,
                       progressInterval, intervalActive)
          /\ UNCHANGED <<route, pureVars, form, plainVars, relayVars, storeCall, res>>
       \/ /\ \E r \in ErrorResponses : res' = r
          /\ auxCall' = "answered"
          /\ pc' = "aux_errbody"
          /\ UNCHANGED <<route, pureVars, form, plainVars, relayVars, outVars, timerVars, imgCall, storeCall, decVars>>
       \/ /\ auxCall' = "answered"
          /\ pc' = "aux_body"
          /\ UNCHANGED <<route, pureVars, form, plainVars, relayVars, outVars, timerVars, imgCall, storeCall, res,
                         decVars>>

\* the prefix of the message thrown for a failed text call
AuxFailurePrefix(m) ==
  IF m = "pokemon_card" THEN "Failed to generate Sackmon card prompt: "
  ELSE "Failed to generate creative prompt: "

\* x || y for strings
OrElse(x, y) == IF x = "" THEN y ELSE x

\* lines 360-363, 554-557: the error body of the text call has been read
AuxErrorBody ==
  /\ route = "stream" /\ pc = "aux_errbody"
  /\ ExitError(CatchMessage("Error",
                 <<AuxFailurePrefix(mode), OrElse(CaughtMessage(res.body), MsgUnknown)>>),
               IF auxCall = "answered" THEN "done" ELSE auxCall, imgCall,
               progressInterval, intervalActive)
  /\ UNCHANGED <<route, pureVars, form, plainVars, relayVars, storeCall, res>>

\* a check that lets every prompt through
PromptNeverMissing(p) == FALSE
\* if (!generatedPrompt)
PromptMissing(p) == p = ""

\* the synthetic-progress interval of an auxiliary mode starts after the
\* progress 20, right before the image call
\* lines 365-410, 559-604: the body of the text call has been read; an empty
\* prompt is an error, otherwise progress 20 is sent, the interval is started
\* and the image call is started
AuxBody ==
  /\ route = "stream" /\ pc = "aux_body"
  /\ \E text \in AuxTexts :
       LET a == IF auxCall = "answered" THEN "done" ELSE auxCall IN
       IF text = NotJson THEN
         /\ ExitError(CatchMessage("SyntaxError", MsgSyntax), a, imgCall,
                      progressInterval, intervalActive)
         /\ UNCHANGED <<route, pureVars, form, plainVars, relayVars, storeCall, res>>
       ELSE IF PromptMissing(TrimText(text)) THEN
         /\ ExitError(CatchMessage("Error", MsgNoPrompt(mode)), a, imgCall,
                      progressInterval, intervalActive)
         /\ UNCHANGED <<route, pureVars, form, plainVars, relayVars, storeCall, res>>
       ELSE IF ~Writable THEN
         /\ SendProgressThrows(20)
         /\ prompt' = TrimText(text)
         /\ auxCall' = a
         /\ UNCHANGED <<route, pureVars, form, plainVars, mode, keepPrivate, privateField, ticks, timerVars, imgCall, storeCall, res>>
       ELSE
         /\ prompt' = TrimText(text)
         /\ currentProgress' = 20
         /\ events' = Append(events, ProgressEv(20, MsgCreating(mode)))
         /\ progressInterval' = TRUE
         /\ intervalActive' = TRUE
         /\ auxCall' = a
         /\ imgCall' = "inflight"
         /\ pc' = "img_fetch"
         /\ UNCHANGED <<route, pureVars, form, plainVars, mode, keepPrivate, privateField, ticks, closed, cancelled, lateWrite,
                        timeoutPending, timeoutFired, aborted, storeCall, res, decVars>>


\* ------------------------------------------------------- the read loop
Min(a, b) == IF a <= b THEN a ELSE b

\* the percent of the k-th partial event
PartialProgress(m, k) ==
  IF m \in UploadModes THEN Min(20 + (k * 15), 80) ELSE Min(40 + (k * 15), 85)

MsgPartial(m, k) ==
  IF m = "pokemon_card" THEN <<"Generating Sackmon card... (partial ", ToString(k), ")">>
  ELSE <<"Generating... (partial ", ToString(k), ")">>

\* data.partial_image_index || partialCount
PartialIndex(idx, count) == IF idx = NoIndex \/ idx = 0 THEN count ELSE idx

\* a buffer that forgets the unfinished line
RemainderDropped(lines) == <<>>
\* buffer = lines.pop() || ''
Remainder(lines) == Last(lines)

\* a test that takes every type but the completed one for a partial image
IsPartialTypeLoose(t) == t # "C"
\* data.type === 'image_edit.partial_image'
IsPartialType(t) == t = "P"

\* a final image that a later completed frame does not replace
FinalImageKeepsFirst(old, data) == IF old = NoImage THEN data.b64_json ELSE old
\* finalImage = data.b64_json
FinalImageAfter(old, data) == data.b64_json

\* The body of the for loop, for one line.  st is the loop's state: the
\* counters, the events enqueued so far (out) and whether an enqueue threw
\* (late).  w tells whether the output stream is writable: when it is not,
\* the enqueue throws inside the inner try and is swallowed by its catch.
ProcessLine(st, line, m, w) ==
  IF StartsWith(line, EventPrefix) THEN st
  ELSE IF ~StartsWith(line, DataPrefix) THEN st
  ELSE LET jsonStr == Trim(SubSeq(line, 7, Len(line))) IN
       IF jsonStr = <<>> THEN st
       ELSE LET data == ParseJSON(jsonStr) IN
            IF ~data.ok THEN st
            ELSE IF IsPartialType(data.type) THEN
              LET k == st.partialCount + 1 IN
              [st EXCEPT !.partialCount = k,
                         !.out = IF w
                                 THEN Append(@, PartialEv(PartialProgress(m, k), MsgPartial(m, k),
                                        data.b64_json,
                                        PartialIndex(data.partial_image_index, k)))
                                 ELSE @,
                         !.late = @ \/ ~w]
            ELSE IF data.type = "C" THEN
              [st EXCEPT !.finalImage = FinalImageAfter(@, data),
                         !.out = IF w THEN Append(@, ProgressEv(90, MsgFinalizing(m))) ELSE @,
                         !.late = @ \/ ~w]
            ELSE st

RECURSIVE ProcessLines(_, _, _, _)
ProcessLines(st, lines, m, w) ==
  IF lines = <<>> THEN st
  ELSE ProcessLines(ProcessLine(st, Head(lines), m, w), Tail(lines), m, w)


\* the prefix of the message thrown for a failed image call
ImageFailurePrefix == "gpt-image-1 generation failed: "

\* a message that ignores the body of the answer
ImageErrorMessageByStatus(m, r) == <<"OpenAI error (", r.status, ")">>

\* the message reported for a non-success answer of the image endpoint
\* lines 412-415 (pokemon_card), 612-616 (random_crypto), 807-818 (others)
ImageErrorMessage(m, r) ==
  CASE m = "pokemon_card" ->
         <<ImageFailurePrefix, OrElse(CaughtMessage(r.body), MsgUnknown)>>
    [] m = "random_crypto" ->
         IF CaughtMessage(r.body) # "" THEN <<CaughtMessage(r.body)>>
         ELSE <<"gpt-image-1 error (", r.status, ")">>
    [] OTHER ->
         IF CaughtMessage(r.body) # "" THEN <<CaughtMessage(r.body)>>
         ELSE <<"OpenAI error (", r.status, ")">>

\* the progress sent once the image endpoint has answered with success
\* (none in pokemon_card mode)
AnsweredProgress(m) ==
  CASE m = "pokemon_card" -> <<>>
    [] m = "random_crypto" -> <<ProgressEv(90, <<"Processing image generation...">>)>>
    [] OTHER -> <<ProgressEv(95, <<"Receiving generated image...">>)>>

\* lines 393-433, 587-631, 792-839: the image call settles.  It is rejected
\* (by the abort signal, or by the network), or answers with a non-success
\* status, or answers with a success status and a body, or without a body
ImgSettles(bodies) ==
  /\ route = "stream" /\ pc = "img_fetch"
  /\ IF aborted THEN
       /\ ExitError(CatchMessage("AbortError", <<>>), auxCall, imgCall,
                    progressInterval, intervalActive)
       /\ UNCHANGED <<route, pureVars, form, plainVars, relayVars, storeCall, res>>
     ELSE
       \/ /\ ExitError(CatchMessage("TypeError", MsgFetchFailed), auxCall, "failed",
                       progressInterval, intervalActive)
          /\ UNCHANGED <<route, pureVars, form, plainVars, relayVars, storeCall, res>>
       \/ /\ \E r \in ErrorResponses : res' = r
          /\ imgCall' = "answered"
          /\ progressInterval' = (mode = "pokemon_card" /\ progressInterval)
          /\ intervalActive' = (mode = "pokemon_card" /\ intervalActive)
          /\ pc' = "img_errbody"
          /\ UNCHANGED <<route, pureVars, form, plainVars, relayVars, outVars, timeoutPending, timeoutFired, aborted, auxCall,
                         storeCall, decVars>>
       \/ \E hasBody \in BOOLEAN, body \in bodies :
            LET sent == AnsweredProgress(mode) IN
            IF sent # <<>> /\ ~Writable THEN
              /\ SendProgressThrows(sent[1].progress)
              /\ progressInterval' = FALSE
              /\ intervalActive' = FALSE
              /\ imgCall' = "answered"
              /\ UNCHANGED <<route, pureVars, form, plainVars, mode, keepPrivate, privateField, prompt, ticks, timeoutPending, timeoutFired, aborted,
                             auxCall, storeCall, res>>
            ELSE IF ~hasBody THEN
              /\ ExitErrorAfter(sent,
                                IF mode = "pokemon_card"
                                THEN CatchMessage("Error", MsgNoReader)
                                ELSE MsgNoStreaming,
                                auxCall, "answered", FALSE, FALSE)
              /\ currentProgress' = IF sent # <<>> THEN sent[1].progress ELSE currentProgress
              /\ UNCHANGED <<route, pureVars, form, plainVars, mode, keepPrivate, privateField, prompt, ticks, storeCall, res>>
            ELSE
              /\ events' = events \o sent
              /\ currentProgress' = IF sent # <<>> THEN sent[1].progress ELSE currentProgress
              /\ progressInterval' = FALSE
              /\ intervalActive' = FALSE
              /\ imgCall' = "streaming"
              /\ upstream' = body
              /\ received' = <<>>
              /\ buffer' = <<>>
              /\ partialCount' = 0
              /\ finalImage' = NoImage
              /\ hasReceivedData' = FALSE
              /\ pc' = "reading"
              /\ UNCHANGED <<route, pureVars, form, plainVars, mode, keepPrivate, privateField, prompt, ticks, closed, cancelled,
                             lateWrite, timeoutPending, timeoutFired, aborted, auxCall, storeCall, res>>

ImgResponse == ImgSettles(Bodies)

\* lines 412-415, 612-616, 807-818: the error body of the image call has
\* been read
ImgErrorBody ==
  /\ route = "stream" /\ pc = "img_errbody"
  /\ ExitError(ImageErrorMessage(mode, res), auxCall,
               IF imgCall = "answered" THEN "done" ELSE imgCall,
               progressInterval, intervalActive)
  /\ UNCHANGED <<route, pureVars, form, plainVars, relayVars, storeCall, res>>

\* lines 841-901 (436-490, 634-693): reader.read() gives a chunk, which is
\* appended to the buffer; the complete lines are processed
ReadSome(sizes) ==
  /\ route = "stream" /\ pc = "reading" /\ ~aborted /\ upstream # <<>>
  /\ \E k \in sizes :
       \* (each of the three is one value, computed once)
       \E chunk \in {SubSeq(upstream, 1, k)} :
       \E lines \in {Split(buffer \o chunk)} :
       \E st \in {ProcessLines([partialCount |-> partialCount, finalImage |-> finalImage,
                               out |-> <<>>, late |-> FALSE],
                              Front(lines), mode, Writable)} :
          /\ upstream' = SubSeq(upstream, k + 1, Len(upstream))
          /\ received' = received \o chunk
          /\ hasReceivedData' = TRUE
          /\ buffer' = Remainder(lines)
          /\ partialCount' = st.partialCount
          /\ finalImage' = st.finalImage
          /\ events' = events \o st.out
          /\ lateWrite' = (lateWrite \/ (st.late /\ closed))
  /\ UNCHANGED <<route, pureVars, form, plainVars, pc, relayVars, closed, cancelled, timerVars, netVars>>

\* the sizes of the next chunk in a whole request
ChunkSizes == {k \in 1..Len(upstream) : k = Len(upstream) \/ k % ChunkStep = 0}

ReadChunk == ReadSome(ChunkSizes)

\* reader.read() is rejected: the abort signal was raised, or the upstream
\* connection failed; the finally block releases the reader and the catch
\* block runs
ReadRejected ==
  /\ route = "stream" /\ pc = "reading"
  /\ IF aborted
     THEN ExitError(CatchMessage("AbortError", <<>>), auxCall, imgCall,
                    progressInterval, intervalActive)
     ELSE ExitError(CatchMessage("TypeError", MsgTerminated), auxCall, "failed",
                    progressInterval, intervalActive)
  /\ UNCHANGED <<route, pureVars, form, plainVars, relayVars, storeCall, res>>

\* a loop that parses the unfinished line when the body ends
AtEndFlushed(img, buf) ==
  ProcessLine([partialCount |-> 0, finalImage |-> img, out |-> <<>>, late |-> FALSE],
              buf, "transform", FALSE).finalImage
\* lines 845-848: if (done) break: the final image the code after the loop
\* sees is the one the loop held, whatever is left in buffer
AtEnd(img, buf) == img

\* lines 845-848, 908-955 (497-533, 700-736): reader.read() reports the end
\* of the body.  Without a final image the request fails; with one, the image
\* is stored when the request is not private and the result is reported
ReadDone ==
  /\ route = "stream" /\ pc = "reading" /\ ~aborted /\ upstream = <<>>
  /\ IF AtEnd(finalImage, buffer) = NoImage THEN
       /\ ExitError(IF hasReceivedData THEN MsgIncomplete(mode) ELSE MsgNoResponse(mode),
                    auxCall, "done", progressInterval, intervalActive)
       /\ UNCHANGED <<route, pureVars, form, plainVars, relayVars, storeCall, res>>
     ELSE IF keepPrivate THEN
       /\ ExitComplete(NoUrl, "done")
       /\ UNCHANGED <<route, pureVars, form, plainVars, relayVars, storeCall, res>>
     ELSE
       \/ /\ ExitComplete(NoUrl, "done")
          /\ UNCHANGED <<route, pureVars, form, plainVars, relayVars, storeCall, res>>
       \/ /\ storeCall' = "inflight"
          /\ imgCall' = "done"
          /\ pc' = "storing"
          /\ UNCHANGED <<route, pureVars, form, plainVars, relayVars, outVars, timerVars, auxCall, res, decVars>>

\* lines 932-955: the PUT to the blob store settles; a failure is swallowed
StoreSettled ==
  /\ route = "stream" /\ pc = "storing"
  /\ \E ok \in BOOLEAN :
       /\ storeCall' = IF ok THEN "done" ELSE "failed"
       /\ ExitComplete(StoredUrl(ok), imgCall)
  /\ UNCHANGED <<route, pureVars, form, plainVars, relayVars, res>>


\* ------------------------------------------------------ timer callbacks
\* the interval callback sends progress while currentProgress is below this
TickLimit(m) == IF m \in UploadModes THEN 70 ELSE 85
\* and never sends more than this
TickCap(m) == IF m \in UploadModes THEN 90 ELSE 85
\* Math.floor(currentProgress + Math.random() * 3 + 1) adds 1, 2 or 3;
\* Math.floor(currentProgress + Math.random() * 5 + 2) adds 2 .. 6
TickIncrements(m) == IF m \in UploadModes THEN 1..3 ELSE 2..6

\* lines 376-390, 570-584, 773-790: the progress interval fires
Tick ==
  /\ route = "stream" /\ intervalActive /\ ticks < MaxTicks
  /\ currentProgress < TickLimit(mode)
  /\ \E inc \in TickIncrements(mode) :
       LET newProgress == Min(currentProgress + inc, TickCap(mode)) IN
       /\ currentProgress' = newProgress
       /\ IF Writable
          THEN events' = Append(events, ProgressEv(newProgress, MsgWaiting)) /\ UNCHANGED lateWrite
          ELSE lateWrite' = (lateWrite \/ closed) /\ UNCHANGED events
  /\ ticks' = ticks + 1
  /\ UNCHANGED <<route, pureVars, form, plainVars, pc, mode, keepPrivate, privateField, prompt, closed, cancelled, timerVars, netVars,
                 decVars>>

\* lines 266-274: the timeout fires: enqueue(error); cleanup(); close().  On
\* a stream that is no longer writable the enqueue throws and the callback
\* ends there
Timeout ==
  /\ route = "stream" /\ timeoutPending /\ pc # "start"
  /\ timeoutFired' = TRUE
  /\ IF Writable
     THEN /\ events' = Append(events, ErrorEv(MsgTimeout))
          /\ timeoutPending' = CleanupTimeout(timeoutPending)
          /\ intervalActive' = CleanupInterval(progressInterval, intervalActive)
          /\ aborted' = CleanupAbort(aborted)
          /\ auxCall' = AbortCall(auxCall)
          /\ imgCall' = AbortCall(imgCall)
          /\ closed' = TRUE
          /\ UNCHANGED <<cancelled, lateWrite>>
     ELSE /\ timeoutPending' = FALSE
          /\ lateWrite' = (lateWrite \/ closed)
          /\ UNCHANGED <<events, closed, cancelled, intervalActive, aborted, auxCall, imgCall>>
  /\ UNCHANGED <<route, pureVars, form, plainVars, pc, relayVars, progressInterval, storeCall, res, decVars>>

\* lines 237-238, 979-985: the client goes away and the runtime cancels the
\* response stream; the stream is built with start() alone, so nothing of
\* the handler runs
ClientCancel ==
  /\ route = "stream" /\ pc # "start" /\ Writable
  /\ cancelled' = TRUE
  /\ UNCHANGED <<route, pureVars, form, plainVars, pc, relayVars, events, closed, lateWrite, timerVars, netVars, decVars>>


\* --------------------------------------- the non-streaming route: actions
\* the form field n: absent, a text that is no number, or an integer
NFields == {<<"absent", 0>>, <<"text", 0>>} \cup {<<"int", v>> : v \in {0, 1, 2, 10, 11, 25}}

\* the n fields of the requests whose batches are followed: also a negative
\* number, the cap, and numbers above it
WideNFields ==
  {<<"absent", 0>>, <<"text", 0>>}
    \cup {<<"int", v>> : v \in {-1, 0, 1, 2, 10, 11, 25, 100, 101, 250}}
NoNField == <<"none", 0>>

\* a normalisation without the cap
NormaliseNUncapped(f) ==
  LET isFinite == f[1] = "int"
      v == IF f[1] = "absent" THEN 1 ELSE f[2]
  IN IF ~(f[1] = "absent" \/ isFinite) \/ v < 1 THEN 1 ELSE v
\* lines 31-33: Number(form.get('n') || 1), 1 unless finite and at least 1,
\* capped at MAX_TOTAL
NormaliseN(f) ==
  LET isFinite == f[1] = "int"
      v == IF f[1] = "absent" THEN 1 ELSE f[2]
  IN IF ~(f[1] = "absent" \/ isFinite) \/ v < 1 THEN 1 ELSE Min(v, MAX_TOTAL)

\* one call for every image
BatchesOfOne(remaining) == [i \in 1..remaining |-> 1]

\* lines 83-91: the sizes of the batches of a request for k images
RECURSIVE Batches(_)
Batches(remaining) ==
  IF remaining > 0
  THEN LET take == Min(MAX_PER_REQUEST, remaining) IN <<take>> \o Batches(remaining - take)
  ELSE <<>>

NoResponse == [status |-> "none", error |-> <<>>, images |-> 0, imageUrl |-> NoUrl]
ErrorResponse(st, msg) == [status |-> st, error |-> msg, images |-> 0, imageUrl |-> NoUrl]
OkResponse(k, url) == [status |-> "200", error |-> <<>>, images |-> k, imageUrl |-> url]

\* res.text() of a response: it throws once the body has been used
ReadText(body, bodyUsed) == [ok |-> ~bodyUsed, text |-> body]

\* lines 52-56: the message of a non-success answer on the single-image path
SingleErrorMessage(r) ==
  IF CaughtMessage(r.body) # "" THEN <<CaughtMessage(r.body)>>
  ELSE <<"OpenAI error (", r.status, ")">>

\* lines 109-121: the message of a non-success answer on the batch path:
\* res.json() is tried first and uses the body up, res.text() is tried when
\* res.json() throws
BatchErrorMessage(r) ==
  LET fallback == <<"OpenAI error (", r.status, ")">> IN
  IF JsonParses(r.body)
  THEN (IF ErrorMessageOf(r.body) # "" THEN <<ErrorMessageOf(r.body)>> ELSE fallback)
  ELSE LET text == ReadText(r.body, TRUE) IN
       IF text.ok THEN <<text.text>> ELSE fallback

\* lines 19-49, 81-107: the form is parsed, n is normalised, and the one call
\* of the single-image path, or the calls of all batches, are started.  A
\* form of a no-upload mode may come without a file: fd.append('image', null,
\* 'upload.png') (lines 44, 101) then throws a TypeError before any fetch,
\* which the catch block (lines 171-174) answers with status 400
PlainParseOf(modes, files, privates, fields) ==
  /\ route = "plain" /\ pc = "start"
  /\ \E m \in modes, file \in files, sizeOk, styleOk \in BOOLEAN,
        private \in privates, f \in fields :
       LET err == ParseFormError(m, file, sizeOk, styleOk) IN
       /\ form' = Form(m, file, sizeOk, styleOk)
       /\ IF err # <<>> THEN
            /\ response' = ErrorResponse("400", err)
            /\ pc' = "done"
            /\ UNCHANGED <<mode, keepPrivate, privateField, n, batches, calls, imgCall>>
          ELSE IF file = "none" THEN
            /\ mode' = m /\ keepPrivate' = KeepPrivate(private) /\ privateField' = private
            /\ n' = NormaliseN(f)
            /\ response' = ErrorResponse("400", MsgNotBlob)
            /\ pc' = "done"
            /\ UNCHANGED <<batches, calls, imgCall>>
          ELSE
            /\ mode' = m /\ keepPrivate' = KeepPrivate(private) /\ privateField' = private
            /\ n' = NormaliseN(f)
            /\ IF NormaliseN(f) = 1
               THEN /\ imgCall' = "inflight"
                    /\ pc' = "p_call"
                    /\ UNCHANGED <<batches, calls>>
               ELSE /\ batches' = Batches(NormaliseN(f))
                    /\ calls' = [i \in 1..Len(Batches(NormaliseN(f))) |-> "inflight"]
                    /\ pc' = "p_batch"
                    /\ UNCHANGED imgCall
            /\ UNCHANGED response
  /\ UNCHANGED <<route, pureVars, prompt, currentProgress, ticks, outVars, timerVars, auxCall, storeCall,
                 res, decVars>>

PlainParse == PlainParseOf(FormModes, Files, PrivateFields, NFields)

\* lines 46-56: the call of the single-image path settles
PlainResponse ==
  /\ route = "plain" /\ pc = "p_call"
  /\ \/ /\ response' = ErrorResponse("400", MsgFetchFailed)
        /\ imgCall' = "failed"
        /\ pc' = "done"
        /\ UNCHANGED res
     \/ /\ \E r \in ErrorResponses : res' = r
        /\ imgCall' = "answered"
        /\ pc' = "p_errbody"
        /\ UNCHANGED response
     \/ /\ imgCall' = "answered"
        /\ pc' = "p_body"
        /\ UNCHANGED <<res, response>>
  /\ UNCHANGED <<route, pureVars, form, relayVars, outVars, timerVars, auxCall, storeCall, decVars, n, batches,
                 calls>>

\* lines 52-56: the error body has been read
PlainErrorBody ==
  /\ route = "plain" /\ pc = "p_errbody"
  /\ response' = ErrorResponse("400", SingleErrorMessage(res))
  /\ imgCall' = "done"
  /\ pc' = "done"
  /\ UNCHANGED <<route, pureVars, form, relayVars, outVars, timerVars, auxCall, storeCall, res, decVars, n,
                 batches, calls>>

\* lines 58-79: the body has been read; without an image the answer is 502,
\* with one it is stored when the request is not private
PlainBody ==
  /\ route = "plain" /\ pc = "p_body"
  /\ imgCall' = "done"
  /\ \E hasImage, configured \in BOOLEAN :
       IF ~hasImage THEN
         /\ response' = ErrorResponse("502", <<"No image returned.">>)
         /\ pc' = "done"
         /\ UNCHANGED storeCall
       ELSE IF keepPrivate \/ ~configured THEN
         /\ response' = OkResponse(1, NoUrl)
         /\ pc' = "done"
         /\ UNCHANGED storeCall
       ELSE
         /\ storeCall' = "inflight"
         /\ pc' = "p_store"
         /\ UNCHANGED response
  /\ UNCHANGED <<route, pureVars, form, relayVars, outVars, timerVars, auxCall, res, decVars, n, batches, calls>>

\* lines 64-71: the PUT to the blob store settles; a failure is ignored
PlainStoreSettled ==
  /\ route = "plain" /\ pc = "p_store"
  /\ \E ok \in BOOLEAN :
       /\ storeCall' = IF ok THEN "done" ELSE "failed"
       /\ response' = OkResponse(1, StoredUrl(ok))
  /\ pc' = "done"
  /\ UNCHANGED <<route, pureVars, form, relayVars, outVars, timerVars, auxCall, imgCall, res, decVars, n,
                 batches, calls>>

\* the images the settled calls returned
RECURSIVE Returned(_, _)
Returned(cs, bs) ==
  IF cs = <<>> THEN 0
  ELSE (IF Head(cs) = "ok" THEN Head(bs) ELSE 0) + Returned(Tail(cs), Tail(bs))

\* lines 95-158: the call of one batch settles: it fails (the network, or a
\* non-success answer) and Promise.all rejects at once, or it returns its
\* images, or none.  Once all calls have returned, the images are stored when
\* the request is not private, and the answer is sent
BatchSettleOf(answers, outcomes) ==
  /\ route = "plain" /\ pc \in {"p_batch", "done"}
  /\ \E i \in 1..Len(calls) :
       /\ calls[i] = "inflight"
       /\ \/ /\ calls' = [calls EXCEPT ![i] = "failed"]
             /\ \E r \in answers :
                  LET msg == IF r = NoRes THEN MsgFetchFailed ELSE BatchErrorMessage(r) IN
                  IF pc = "p_batch"
                  THEN response' = ErrorResponse("400", msg) /\ pc' = "done" /\ res' = r
                  ELSE UNCHANGED <<response, pc, res>>
             /\ UNCHANGED storeCall
          \/ /\ \E outcome \in outcomes : calls' = [calls EXCEPT ![i] = outcome]
             /\ UNCHANGED res
             /\ IF pc = "p_batch" /\ \A j \in 1..Len(calls) : calls'[j] \in {"ok", "empty"}
                THEN IF Returned(calls', batches) = 0 THEN
                       /\ response' = ErrorResponse("502", <<"No images returned.">>)
                       /\ pc' = "done"
                       /\ UNCHANGED storeCall
                     ELSE \E configured \in BOOLEAN :
                       IF keepPrivate \/ ~configured THEN
                         /\ response' = OkResponse(Returned(calls', batches), NoUrl)
                         /\ pc' = "done"
                         /\ UNCHANGED storeCall
                       ELSE
                         /\ storeCall' = "inflight"
                         /\ pc' = "p_storeall"
                         /\ UNCHANGED response
                ELSE UNCHANGED <<response, pc, storeCall>>
  /\ UNCHANGED <<route, pureVars, form, relayVars, outVars, timerVars, auxCall, imgCall, decVars, n, batches>>

BatchSettle == BatchSettleOf(ErrorResponses \cup {NoRes}, {"ok", "empty"})

\* lines 139-148: the PUTs to the blob store have settled; failures are ignored
BatchStoreSettled ==
  /\ route = "plain" /\ pc = "p_storeall"
  /\ \E ok \in BOOLEAN :
       /\ storeCall' = IF ok THEN "done" ELSE "failed"
       /\ response' = OkResponse(Returned(calls, batches), StoredUrl(ok))
  /\ pc' = "done"
  /\ UNCHANGED <<route, pureVars, form, relayVars, outVars, timerVars, auxCall, imgCall, res, decVars, n,
                 batches, calls>>

\* ------------------------------------------------------- specification
\* no file is under check
UploadIdle ==
  /\ upload = NoUpload /\ uploadMode = "none"
  /\ clientVerdict = NoVerdict /\ serverVerdict = NoVerdict

\* no pair of concurrent requests is followed
TwoIdle == streams = <<>> /\ locals = <<>>

\* no request is followed through its batches
BatchIdle == nField = NoNField

\* no page is open
ClientIdle == page = NoPage /\ handlers = <<>>

\* buildPrompt has not been called
PromptIdle == options = NoOptions /\ built = NotBuilt /\ builtCustomFirst = NotBuilt

\* the handler of a route before its first step
RelayIdle ==
  /\ pc = "start"
  /\ mode = "none"
  /\ keepPrivate = TRUE
  /\ privateField = "absent"
  /\ form = NoForm
  /\ prompt = ""
  /\ currentProgress = 10
  /\ ticks = 0
  /\ events = <<>>
  /\ closed = FALSE
  /\ cancelled = FALSE
  /\ lateWrite = FALSE
  /\ timeoutPending = FALSE
  /\ timeoutFired = FALSE
  /\ progressInterval = FALSE
  /\ intervalActive = FALSE
  /\ aborted = FALSE
  /\ auxCall = "none"
  /\ imgCall = "none"
  /\ storeCall = "none"
  /\ res = NoRes
  /\ upstream = <<>>
  /\ received = <<>>
  /\ buffer = <<>>
  /\ partialCount = 0
  /\ finalImage = NoImage
  /\ hasReceivedData = FALSE
  /\ n = 0
  /\ batches = <<>>
  /\ calls = <<>>
  /\ response = NoResponse

Init ==
  /\ route \in {"stream", "plain"}
  /\ RelayIdle
  /\ UploadIdle
  /\ PromptIdle
  /\ ClientIdle
  /\ BatchIdle
  /\ TwoIdle

Next ==
  \/ StartRequest
  \/ ParseForm
  \/ AuxResponse
  \/ AuxErrorBody
  \/ AuxBody
  \/ ImgResponse
  \/ ImgErrorBody
  \/ ReadChunk
  \/ ReadRejected
  \/ ReadDone
  \/ StoreSettled
  \/ Tick
  \/ Timeout
  \/ ClientCancel
  \/ PlainParse
  \/ PlainResponse
  \/ PlainErrorBody
  \/ PlainBody
  \/ PlainStoreSettled
  \/ BatchSettle
  \/ BatchStoreSettled

Spec == Init /\ [][Next]_vars

\* The decoder on its own.  The handler has reached its read loop (a private
\* request that no timer fired in), the body of the image call is any stream
\* of frames, and it arrives cut into chunks at any place.
\* what the handler has sent when it enters the read loop
SentBeforeLoop(m) ==
  <<ProgressEv(5, <<"Parsing request...">>)>>
  \o (IF m \in AuxModes
      THEN <<ProgressEv(10, MsgGenerating(m)), ProgressEv(20, MsgCreating(m))>>
      ELSE <<ProgressEv(10, <<"Starting OpenAI transformation...">>),
             ProgressEv(10, <<"Starting OpenAI transformation...">>),
             ProgressEv(15, <<"Connecting to OpenAI...">>)>>)
  \o AnsweredProgress(m)

\* the handler at the first reader.read() of a request of mode m whose image
\* call streams body
AtLoopStart(m, body) ==
  /\ route = "stream" /\ pc = "reading"
  /\ mode = m /\ keepPrivate = TRUE /\ privateField = "true"
  /\ form = Form(m, "ok", TRUE, TRUE)
  /\ prompt = (IF m \in AuxModes THEN "a sackboy prompt" ELSE "")
  /\ events = SentBeforeLoop(m)
  /\ currentProgress = events[Len(events)].progress
  /\ ticks = 0
  /\ closed = FALSE /\ cancelled = FALSE /\ lateWrite = FALSE
  /\ timeoutPending = TRUE /\ timeoutFired = FALSE
  /\ progressInterval = FALSE /\ intervalActive = FALSE /\ aborted = FALSE
  /\ auxCall = (IF m \in AuxModes THEN "done" ELSE "none")
  /\ imgCall = "streaming" /\ storeCall = "none" /\ res = NoRes
  /\ upstream = body /\ received = <<>> /\ buffer = <<>>
  /\ partialCount = 0 /\ finalImage = NoImage /\ hasReceivedData = FALSE
  /\ n = 0 /\ batches = <<>> /\ calls = <<>> /\ response = NoResponse
  /\ UploadIdle
  /\ PromptIdle
  /\ ClientIdle
  /\ BatchIdle
  /\ TwoIdle

\* ----------------------------------- the two file checks on one file
\* UploadDropzone.onFiles: const err = validateUpload(f)
ClientValidate ==
  /\ upload # NoUpload /\ ~clientVerdict.done
  /\ clientVerdict' = Verdict(validateUpload(upload))
  /\ UNCHANGED <<route, form, pc, relayVars, outVars, timerVars, netVars, decVars,
                 plainVars, promptVars, clientVars, batchVars, twoVars, upload, uploadMode, serverVerdict>>

\* parseForm on a form that carries the file, the mode and valid enums
ServerParse ==
  /\ upload # NoUpload /\ ~serverVerdict.done
  /\ serverVerdict' = Verdict(ParseFormError(uploadMode, FileKind(upload), TRUE, TRUE))
  /\ UNCHANGED <<route, form, pc, relayVars, outVars, timerVars, netVars, decVars,
                 plainVars, promptVars, clientVars, batchVars, twoVars, upload, uploadMode, clientVerdict>>

InitUpload ==
  /\ route = "stream"
  /\ RelayIdle
  /\ upload \in Uploads \ {NoUpload}
  /\ uploadMode \in Modes
  /\ clientVerdict = NoVerdict /\ serverVerdict = NoVerdict
  /\ PromptIdle
  /\ ClientIdle
  /\ BatchIdle
  /\ TwoIdle

NextUpload ==
  \/ ClientValidate
  \/ ServerParse

SpecUpload == InitUpload /\ [][NextUpload]_vars

\* -------------------------------- the two versions of buildPrompt
\* src/lib/prompt.ts is called with the options
BuildPrompt ==
  /\ options # NoOptions /\ ~built.done
  /\ built' = buildPrompt(options)
  /\ UNCHANGED <<route, form, pc, relayVars, outVars, timerVars, netVars, decVars,
                 plainVars, uploadVars, clientVars, batchVars, twoVars, options, builtCustomFirst>>

\* src/unnamed/part_003 is called with the same options
BuildPromptCustomFirst ==
  /\ options # NoOptions /\ ~builtCustomFirst.done
  /\ builtCustomFirst' = buildPromptCustomFirst(options)
  /\ UNCHANGED <<route, form, pc, relayVars, outVars, timerVars, netVars, decVars,
                 plainVars, uploadVars, clientVars, batchVars, twoVars, options, built>>

InitPrompt ==
  /\ route = "stream"
  /\ RelayIdle
  /\ UploadIdle
  /\ options \in PromptOptions
  /\ ClientIdle
  /\ BatchIdle
  /\ TwoIdle
  /\ built = NotBuilt /\ builtCustomFirst = NotBuilt

NextPrompt ==
  \/ BuildPrompt
  \/ BuildPromptCustomFirst

SpecPrompt == InitPrompt /\ [][NextPrompt]_vars

\* ------------------------------------------------------- the page: actions
relayState == <<route, form, pc, relayVars, outVars, timerVars, netVars, decVars, plainVars>>

\* lines 430-449: the button is enabled while loading is false (the original
\* image is there); a click starts a generation.  setLoading(true) is the
\* first statement of the three handlers (lines 50, 140, 229).
Click ==
  /\ page # NoPage /\ ~page.loading /\ Len(handlers) < MaxClicks
  /\ handlers' = Append(handlers, Handler(StartsOnClick(page.generationMode)))
  /\ page' = [page EXCEPT !.loading = (StartsOnClick(page.generationMode) = "fetching")]
  /\ UNCHANGED <<relayState, uploadVars, promptVars, batchVars, twoVars>>

\* lines 444-447: the chain has made the File and calls handleGenerate, which
\* sets loading and posts the form
Converted ==
  \E i \in 1..Len(handlers) :
    /\ handlers[i].stage = "converting"
    /\ handlers' = [handlers EXCEPT ![i].stage = "fetching"]
    /\ page' = [page EXCEPT !.loading = TRUE]
    /\ UNCHANGED <<relayState, uploadVars, promptVars, batchVars, twoVars>>

\* lines 64-78: fetch resolves with the stream of the relay; or it rejects, or
\* the status is not ok, and the outer catch alerts and finally clears loading
Responded ==
  \E i \in 1..Len(handlers) :
    /\ handlers[i].stage = "fetching"
    /\ \/ \E st \in ClientStreams :
            /\ handlers' = [handlers EXCEPT ![i].stage = "reading", ![i].stream = st]
            /\ UNCHANGED page
       \/ \E msg \in {MsgHttpError, MsgFailedToFetch} :
            /\ handlers' = [handlers EXCEPT ![i].stage = "done"]
            /\ page' = [page EXCEPT !.alerts = Append(@, msg), !.loading = FALSE]
    /\ UNCHANGED <<relayState, uploadVars, promptVars, batchVars, twoVars>>

\* lines 82-129: one event of the stream is read and handled
ClientEvent ==
  \E i \in 1..Len(handlers) :
    /\ handlers[i].stage = "reading" /\ handlers[i].stream # <<>>
    /\ LET after == OnEvent(page, handlers[i], Head(handlers[i].stream)) IN
         /\ page' = after[1]
         /\ handlers' = [handlers EXCEPT ![i] = after[2]]
    /\ UNCHANGED <<relayState, uploadVars, promptVars, batchVars, twoVars>>

\* lines 83-85, 133-136: the stream ends, the loop breaks, finally clears
\* loading
ClientDone ==
  \E i \in 1..Len(handlers) :
    /\ handlers[i].stage = "reading" /\ handlers[i].stream = <<>>
    /\ handlers' = [handlers EXCEPT ![i].stage = "done"]
    /\ page' = [page EXCEPT !.loading = FALSE]
    /\ UNCHANGED <<relayState, uploadVars, promptVars, batchVars, twoVars>>

InitClient ==
  /\ route = "stream"
  /\ RelayIdle
  /\ UploadIdle
  /\ PromptIdle
  /\ page \in {OpenPage(m) : m \in Modes}
  /\ handlers = <<>>
  /\ BatchIdle
  /\ TwoIdle

NextClient ==
  \/ Click
  \/ Converted
  \/ Responded
  \/ ClientEvent
  \/ ClientDone

SpecClient == InitClient /\ [][NextClient]_vars

\* ------------------------------ the non-streaming route, batch by batch
\* A request of the non-streaming route with a well-formed image, whose n
\* field is any of WideNFields.  A call of a batch returns its images or
\* fails in the network; the single-image path is as in Spec.
BatchParse == PlainParseOf({"transform"}, {"ok"}, {"true", "false"}, {nField})

BatchSettleOrFail == BatchSettleOf({NoRes}, {"ok"})

InitBatch ==
  /\ route = "plain"
  /\ RelayIdle
  /\ UploadIdle
  /\ PromptIdle
  /\ ClientIdle
  /\ nField \in WideNFields
  /\ TwoIdle

NextBatch ==
  \/ BatchParse
  \/ PlainResponse
  \/ PlainErrorBody
  \/ PlainBody
  \/ PlainStoreSettled
  \/ BatchSettleOrFail
  \/ BatchStoreSettled

SpecBatch == InitBatch /\ [][NextBatch]_vars

\* ------------------------------------------- two relay requests at once
\* Two POSTs to /api/stylize-stream are served by one module instance.  Both
\* are private transform requests with a valid form and an API key, and both
\* have reached the await of the image fetch: the timeout is armed, the
\* progress interval runs.  streams[r] is what belongs to request r whatever
\* the code does: its controller (events, closed), where its handler is
\* suspended (pc), and its upstream response (body, upstream).  locals[c] are
\* the let variables of one call of start(): the handler of request r reads
\* and writes locals[Closure(r)].
Requests == {1, 2}

\* module-level variables: every request uses the same
ClosureShared(r) == 1
\* lines 238-260, 836-839: abortController, timeoutId, progressInterval,
\* currentProgress, buffer, finalImage, partialCount and hasReceivedData are
\* declared with let inside start(controller) and inside the handler, so
\* every request has its own; the module level holds constants only
\* (lines 224-228)
Closure(r) == r

\* the bodies the image call of request r may stream: the frames of the two
\* requests carry different images
PeerBodies(r) ==
  IF r = 1
  THEN {Join(<<LinePartial, LineCompleted>>, TRUE), Join(<<LineCompleted>>, FALSE)}
  ELSE {Join(<<LinePartial2, LineCompleted2>>, TRUE), Join(<<LinePartial2>>, TRUE)}

\* lines 738-799: a transform request at the await of the image fetch
PeerStream(body) ==
  [pc |-> "img_fetch", closed |-> FALSE, body |-> body, upstream |-> <<>>,
   events |-> <<ProgressEv(5, <<"Parsing request...">>),
                ProgressEv(10, <<"Starting OpenAI transformation...">>),
                ProgressEv(10, <<"Starting OpenAI transformation...">>),
                ProgressEv(15, <<"Connecting to OpenAI...">>)>>]
PeerLocals ==
  [currentProgress |-> 15, ticks |-> 0, timeoutPending |-> TRUE, intervalActive |-> TRUE,
   aborted |-> FALSE, buffer |-> <<>>, partialCount |-> 0, finalImage |-> NoImage,
   hasReceivedData |-> FALSE]

\* cleanup() (lines 243-254) on the locals, and the locals of the read loop
\* going out of scope
PeerCleanup(L) ==
  [L EXCEPT !.timeoutPending = CleanupTimeout(@),
            !.intervalActive = CleanupInterval(TRUE, @),
            !.aborted = CleanupAbort(@)]
PeerDropped(L) ==
  [L EXCEPT !.buffer = <<>>, !.partialCount = 0, !.finalImage = NoImage,
            !.hasReceivedData = FALSE]

\* an exit of the handler with a terminal event: enqueue; cleanup(); close().
\* On a closed stream the enqueue throws, the catch block's enqueue throws
\* again and start() ends without cleanup()
PeerExit(S, L, ev) ==
  IF ~S.closed
  THEN <<[S EXCEPT !.pc = "done", !.upstream = <<>>, !.events = Append(@, ev),
                   !.closed = ExitCloses],
         PeerDropped(PeerCleanup(L))>>
  ELSE <<[S EXCEPT !.pc = "done", !.upstream = <<>>], PeerDropped(L)>>

\* a step of request r that leaves its stream as S and the locals it uses as L
PeerStep(r, SL) ==
  /\ streams' = [streams EXCEPT ![r] = SL[1]]
  /\ locals' = [locals EXCEPT ![Closure(r)] = SL[2]]
  /\ UNCHANGED <<relayState, uploadVars, promptVars, clientVars, batchVars>>

\* lines 773-790: the progress interval of request r fires
PeerTick(r) ==
  LET S == streams[r]  L == locals[Closure(r)] IN
  /\ L.intervalActive /\ L.ticks < MaxTicks
  /\ L.currentProgress < TickLimit("transform")
  /\ \E inc \in TickIncrements("transform") :
       LET newProgress == Min(L.currentProgress + inc, TickCap("transform")) IN
       PeerStep(r, <<[S EXCEPT !.events = IF S.closed THEN @
                                           ELSE Append(@, ProgressEv(newProgress, MsgWaiting))],
                     [L EXCEPT !.currentProgress = newProgress, !.ticks = @ + 1]>>)

\* lines 264-274: the timeout of request r fires
PeerTimeout(r) ==
  LET S == streams[r]  L == locals[Closure(r)] IN
  /\ L.timeoutPending
  /\ PeerStep(r, IF ~S.closed
                 THEN <<[S EXCEPT !.events = Append(@, ErrorEv(MsgTimeout)), !.closed = TRUE],
                        PeerCleanup(L)>>
                 ELSE <<S, [L EXCEPT !.timeoutPending = FALSE]>>)

\* lines 792-839: the image call of request r settles: it is rejected by the
\* abort signal or by the network, or it answers with the body
PeerAnswered(r) ==
  LET S == streams[r]  L == locals[Closure(r)] IN
  /\ S.pc = "img_fetch"
  /\ IF L.aborted
     THEN PeerStep(r, PeerExit(S, L, ErrorEv(CatchMessage("AbortError", <<>>))))
     ELSE \/ PeerStep(r, PeerExit(S, L, ErrorEv(CatchMessage("TypeError", MsgFetchFailed))))
          \/ PeerStep(r, IF S.closed
                          THEN PeerExit(S, [L EXCEPT !.currentProgress = 95,
                                                     !.intervalActive = FALSE],
                                        ErrorEv(MsgGenerationFailed))
                          ELSE <<[S EXCEPT !.pc = "reading", !.upstream = S.body,
                                           !.events = @ \o AnsweredProgress("transform")],
                                 [PeerDropped(L) EXCEPT !.currentProgress = 95,
                                                        !.intervalActive = FALSE]>>)

\* lines 841-903: one reader.read() of request r, and the lines it completes
PeerRead(r) ==
  LET S == streams[r]  L == locals[Closure(r)] IN
  /\ S.pc = "reading" /\ ~L.aborted /\ S.upstream # <<>>
  /\ \E k \in {j \in 1..Len(S.upstream) : j = Len(S.upstream) \/ j % ChunkStep = 0} :
       LET chunk == SubSeq(S.upstream, 1, k)
           lines == Split(L.buffer \o chunk)
           st == ProcessLines([partialCount |-> L.partialCount, finalImage |-> L.finalImage,
                               out |-> <<>>, late |-> FALSE],
                              Front(lines), "transform", ~S.closed)
       IN PeerStep(r, <<[S EXCEPT !.upstream = SubSeq(@, k + 1, Len(@)),
                                  !.events = @ \o st.out],
                        [L EXCEPT !.buffer = Remainder(lines),
                                  !.partialCount = st.partialCount,
                                  !.finalImage = st.finalImage,
                                  !.hasReceivedData = TRUE]>>)

\* lines 957-975: reader.read() of request r is rejected: its abort signal
\* was raised, or its upstream connection failed
PeerReadRejected(r) ==
  LET S == streams[r]  L == locals[Closure(r)] IN
  /\ S.pc = "reading"
  /\ PeerStep(r, PeerExit(S, L, ErrorEv(IF L.aborted
                                         THEN CatchMessage("AbortError", <<>>)
                                         ELSE CatchMessage("TypeError", MsgTerminated))))

\* lines 845-848, 908-955: the body of request r has ended
PeerReadDone(r) ==
  LET S == streams[r]  L == locals[Closure(r)] IN
  /\ S.pc = "reading" /\ ~L.aborted /\ S.upstream = <<>>
  /\ PeerStep(r, PeerExit(S, L,
                   IF AtEnd(L.finalImage, L.buffer) = NoImage
                   THEN ErrorEv(IF L.hasReceivedData THEN MsgIncomplete("transform")
                                                     ELSE MsgNoResponse("transform"))
                   ELSE CompleteEv(L.finalImage, NoUrl)))

InitTwo ==
  /\ route = "stream"
  /\ RelayIdle
  /\ UploadIdle
  /\ PromptIdle
  /\ ClientIdle
  /\ BatchIdle
  /\ streams \in {[r \in Requests |-> PeerStream(IF r = 1 THEN b1 ELSE b2)] :
                     b1 \in PeerBodies(1), b2 \in PeerBodies(2)}
  /\ locals = [c \in Requests |-> PeerLocals]

NextTwo ==
  \E r \in Requests :
    \/ PeerTick(r)
    \/ PeerTimeout(r)
    \/ PeerAnswered(r)
    \/ PeerRead(r)
    \/ PeerReadRejected(r)
    \/ PeerReadDone(r)

SpecTwo == InitTwo /\ [][NextTwo]_vars

InitDecode == \E m \in Modes, body \in Streams : AtLoopStart(m, body)

ReadAny == ReadSome(1..Len(upstream))

NextDecode ==
  \/ ReadAny
  \/ ReadDone

SpecDecode == InitDecode /\ [][NextDecode]_vars

\* ------------------------------------------------------------ properties
IsTerminal(e) == e.type \in {"complete", "error"}
Terminals == SelectSeq(events, IsTerminal)
Percents == SelectSeq(events, LAMBDA e : e.progress # NoProgress)
StreamRunning == route = "stream" /\ pc \notin {"start", "done"}

\* C1: a stream of the relay carries at most one terminal event (complete or
\* error); the stream is closed in the step that emits it, so a closed stream
\* carries exactly one and it is its last event; a handler that has ended has
\* closed its stream; and while the handler runs on an open stream the
\* timeout that forces a terminal event is armed.  The stream is one the
\* client has not cancelled: a cancelled stream delivers nothing more (C7).
ExactlyOneTerminal ==
  /\ Len(Terminals) <= 1
  /\ closed => /\ Len(Terminals) = 1
               /\ IsTerminal(events[Len(events)])
  /\ Len(Terminals) = 1 => closed
  /\ (route = "stream" /\ pc = "done" /\ ~cancelled) => closed
  /\ (StreamRunning /\ ~closed /\ ~cancelled) => timeoutPending

\* the timeout closed the stream and the handler, still running, later
\* reached its own exit
ExactlyOneTerminalWitness ==
  /\ closed /\ timeoutFired /\ lateWrite /\ pc = "done"
  /\ Terminals = <<ErrorEv(MsgTimeout)>>

\* C2: the percents of the events of one request never decrease
PercentNonDecreasing ==
  \A i, j \in 1..Len(Percents) : i < j => Percents[i].progress <= Percents[j].progress

\* what the loop has enqueued: the partial events and the "Finalizing" event
LoopEvents ==
  SelectSeq(events, LAMBDA e : e.type = "partial" \/ e.message = MsgFinalizing(mode))

\* the loop's body run once on all the bytes read so far, as one chunk
OneChunk ==
  ProcessLines([partialCount |-> 0, finalImage |-> NoImage, out |-> <<>>, late |-> FALSE],
               Front(Split(received)), mode, TRUE)

\* C3: however the upstream bytes are cut into chunks, the decoder has
\* emitted the events, in the order and number, that it emits when the same
\* bytes arrive as one chunk, and holds the same counters, final image and
\* unfinished line
ChunkingIndependent ==
  (route = "stream" /\ pc = "reading") =>
     /\ LoopEvents = OneChunk.out
     /\ partialCount = OneChunk.partialCount
     /\ finalImage = OneChunk.finalImage
     /\ buffer = Last(Split(received))

\* a partial frame followed by a completed frame, the first read ending
\* inside the "data: " prefix of the second frame: the partial event is out,
\* the unfinished line waits in the buffer
SplitAcrossReads ==
  /\ route = "stream" /\ pc = "reading"
  /\ received \o upstream = Join(<<LinePartial, LineCompleted>>, TRUE)
  /\ buffer = <<"d", "a", "t">>
  /\ Len(LoopEvents) = 1 /\ LoopEvents[1].type = "partial"
  /\ finalImage = NoImage

\* C4: in the modes of the relay that first ask for a prompt, the image call is started
\* only once the text call has returned a prompt that is not empty; when the
\* text call has ended without one, no image call is made and the stream is
\* closed with an error as its terminal event
AuxBeforeImage ==
  /\ (route = "stream" /\ mode \in AuxModes /\ imgCall # "none")
       => (auxCall = "done" /\ prompt # "")
  /\ (route = "stream" /\ mode \in AuxModes /\ pc = "done" /\ auxCall # "none"
        /\ prompt = "" /\ ~cancelled)
       => /\ imgCall = "none"
          /\ closed
          /\ Len(Terminals) = 1 /\ Terminals[1].type = "error"

\* the text call of a pokemon_card request returned an empty prompt
AuxWithoutPrompt ==
  /\ mode = "pokemon_card" /\ pc = "done" /\ auxCall = "done" /\ res = NoRes
  /\ prompt = "" /\ imgCall = "none" /\ closed
  /\ Terminals = <<ErrorEv(MsgNoPrompt("pokemon_card"))>>

\* C5: once the timeout has fired the upstream call is aborted, the stream
\* is closed, and its one terminal event is the timeout error (no complete)
TimeoutAborts ==
  timeoutFired => (aborted /\ closed /\ Terminals = <<ErrorEv(MsgTimeout)>>)

\* C6: once the stream is closed, on whichever exit, no timer is pending,
\* the abort signal is raised and no upstream call is left running
CleanupOnEveryExit ==
  closed => /\ ~timeoutPending
            /\ ~intervalActive
            /\ aborted
            /\ auxCall \notin {"inflight", "answered", "streaming"}
            /\ imgCall \notin {"inflight", "answered", "streaming"}

\* a pokemon_card request whose image call was refused: the exit ran while
\* the progress interval was still set
ExitWithIntervalSet ==
  /\ mode = "pokemon_card" /\ pc = "done" /\ closed
  /\ progressInterval /\ imgCall = "done" /\ res # NoRes
  /\ Terminals # <<>> /\ Terminals[1].type = "error"

\* C7: once the client has gone away from a request that has made an
\* upstream call, no upstream call is left running, the abort signal is
\* raised and the timers are cleared
CancelReleases ==
  (cancelled /\ (auxCall # "none" \/ imgCall # "none"))
    => /\ aborted
       /\ ~timeoutPending /\ ~intervalActive
       /\ auxCall \notin {"inflight", "answered", "streaming"}
       /\ imgCall \notin {"inflight", "answered", "streaming"}

\* the upstream calls of the request that are running
Live == {"inflight", "answered", "streaming"}
InFlight ==
  (IF auxCall \in Live THEN 1 ELSE 0) + (IF imgCall \in Live THEN 1 ELSE 0)
  + Cardinality({i \in DOMAIN calls : calls[i] \in Live})

\* C8 as stated: a request never has two upstream calls running
NeverTwoCalls == InFlight <= 1

\* C8: the streaming route never has two upstream calls running, makes no
\* text call in the upload modes and starts the image call of the other modes
\* after the text call is done; the non-streaming route never has two running
\* for n up to MAX_PER_REQUEST, and for a larger n has at most one for every
\* batch of MAX_PER_REQUEST images
OneCallOrOnePerBatch ==
  /\ route = "stream" =>
       /\ InFlight <= 1
       /\ mode \in UploadModes => auxCall = "none"
       /\ (mode \in AuxModes /\ imgCall # "none") => auxCall = "done"
  /\ route = "plain" =>
       /\ auxCall = "none"
       /\ n <= MAX_PER_REQUEST => InFlight <= 1
       /\ InFlight <= Len(Batches(n))

\* a request for 11 images on the non-streaming route: two calls run at once
TwoBatchesInFlight ==
  route = "plain" /\ n = MAX_PER_REQUEST + 1 /\ InFlight = 2

\* the image call of a streaming request was refused, and the exit that
\* reports it ran on a stream that neither the timeout nor the client had ended
ImageCallRefused ==
  /\ route = "stream" /\ pc = "done" /\ imgCall = "done" /\ res # NoRes
  /\ ~timeoutFired /\ ~cancelled

\* C9 as stated: in every mode a refusal whose JSON body carries a message
\* is reported as one error event with exactly that message
ErrorIsUpstreamMessage ==
  (ImageCallRefused /\ res.body = BodyJsonMsg) =>
     (closed /\ Terminals = <<ErrorEv(<<ErrorMessageOf(res.body)>>)>>)

\* C9: a refusal whose JSON body carries a message ends the stream with one
\* error event and no complete; the message is the upstream's, which the
\* pokemon_card mode prefixes with "gpt-image-1 generation failed: "
ErrorCarriesUpstreamMessage ==
  (ImageCallRefused /\ res.body = BodyJsonMsg) =>
     /\ closed
     /\ Terminals = <<ErrorEv(IF mode = "pokemon_card"
                               THEN <<"gpt-image-1 generation failed: ", "rate limited">>
                               ELSE <<"rate limited">>)>>

\* a 429 with a message, answered to a pokemon_card request
RateLimitedCard ==
  /\ ImageCallRefused /\ res = [status |-> "429", body |-> BodyJsonMsg]
  /\ mode = "pokemon_card" /\ closed

\* C10: a refusal whose body carries no JSON message is reported with the
\* text of the body, on both routes
RawTextFallback ==
  /\ (route = "stream" /\ pc = "done" /\ res.body \in {BodyText, BodyJsonNoMsg}
        /\ ~timeoutFired /\ ~cancelled)
       => Terminals = <<ErrorEv(<<res.body>>)>>
  /\ (route = "plain" /\ pc = "done" /\ res.body \in {BodyText, BodyJsonNoMsg}
        /\ response.status = "400")
       => response.error = <<res.body>>

\* the completed frames among the lines the read loop has been given
IsCompletedLine(line) ==
  /\ StartsWith(line, DataPrefix)
  /\ LET data == ParseJSON(Trim(SubSeq(line, 7, Len(line)))) IN data.ok /\ data.type = "C"
CompletedLines == SelectSeq(Front(Split(received)), IsCompletedLine)
LastCompletedImage ==
  ParseJSON(Trim(SubSeq(Last(CompletedLines), 7, Len(Last(CompletedLines))))).b64_json

\* C11: a step that emits the terminal event emits complete only when a
\* completed frame has been received, and then with the image of the last
\* completed frame; when no completed frame has been received the terminal
\* event it emits is error
CompleteFromCompleted ==
  [][ Len(Terminals') > Len(Terminals) =>
        LET t == Terminals'[Len(Terminals')] IN
        /\ t.type = "complete" =>
             (CompletedLines # <<>> /\ t.imageBase64 = DataUrl(LastCompletedImage))
        /\ CompletedLines = <<>> => t.type = "error" ]_vars

\* two completed frames were received: the complete event carries the image
\* of the second
SecondCompletedWins ==
  /\ route = "stream" /\ pc = "done"
  /\ Len(LoopEvents) = 2
  /\ LoopEvents[1].message = MsgFinalizing(mode) /\ LoopEvents[2].message = MsgFinalizing(mode)
  /\ Terminals = <<CompleteEv("d", NoUrl)>>

\* a line the decoder is to ignore: no data line, or a data line whose
\* payload is no JSON or has another type than partial and completed
Ignored(line) ==
  \/ ~StartsWith(line, DataPrefix)
  \/ LET data == ParseJSON(Trim(SubSeq(line, 7, Len(line)))) IN
       ~data.ok \/ data.type \notin {"P", "C"}
KeptLines == SelectSeq(Front(Split(received)), LAMBDA l : ~Ignored(l))
WithoutIgnored ==
  ProcessLines([partialCount |-> 0, finalImage |-> NoImage, out |-> <<>>, late |-> FALSE],
               KeptLines, mode, TRUE)

\* C12: the read loop has emitted one event for every line that is not
\* ignored and none for an ignored line, no terminal event, and its events
\* and counters are those of the same lines with the ignored lines left out
IgnoredLinesHarmless ==
  (route = "stream" /\ pc = "reading") =>
     /\ Terminals = <<>>
     /\ Len(LoopEvents) = Len(KeptLines)
     /\ LoopEvents = WithoutIgnored.out
     /\ partialCount = WithoutIgnored.partialCount
     /\ finalImage = WithoutIgnored.finalImage

\* a line of malformed JSON came before a partial frame: the partial event
\* is the first of the loop
PartialAfterMalformed ==
  /\ route = "stream" /\ pc = "reading" /\ upstream = <<>>
  /\ received = Join(<<LineMalformed, LinePartial>>, TRUE)
  /\ partialCount = 1
  /\ Len(LoopEvents) = 1 /\ LoopEvents[1].type = "partial" /\ LoopEvents[1].partialIndex = 1

\* C13: when the PUT to the blob store fails, and when a request that is
\* not private finds no store configured, the relay emits complete with the
\* final image and no URL (and nothing else), and the non-streaming route
\* answers 200 with its images and no URL
StorageFailureSwallowed ==
  [][ /\ (route = "stream" /\ pc = "storing" /\ storeCall' = "failed" /\ Writable)
           => (events' = Append(events, CompleteEv(finalImage, NoUrl)) /\ closed')
      /\ (route = "stream" /\ pc = "reading" /\ pc' = "done" /\ imgCall' = "done"
            /\ finalImage # NoImage /\ ~keepPrivate /\ Writable)
           => (events' = Append(events, CompleteEv(finalImage, NoUrl)) /\ closed')
      /\ (route = "plain" /\ storeCall = "inflight" /\ storeCall' = "failed")
           => /\ response'.status = "200" /\ response'.error = <<>>
              /\ response'.images >= 1 /\ response'.imageUrl = NoUrl
      /\ (route = "plain" /\ pc # "done" /\ pc' = "done" /\ ~keepPrivate
            /\ storeCall' = "none" /\ response'.status = "200")
           => (response'.images >= 1 /\ response'.imageUrl = NoUrl) ]_vars

\* the PUT of a streaming request failed: the stream ends with complete
StoreFailedComplete ==
  /\ route = "stream" /\ pc = "done" /\ storeCall = "failed" /\ ~keepPrivate
  /\ closed /\ Len(Terminals) = 1
  /\ Terminals[1].type = "complete" /\ Terminals[1].imageUrl = NoUrl
  /\ Terminals[1].imageBase64 = DataUrl("c")

\* C14: on both routes a PUT to the blob store is made only for a request
\* whose form field private is the text "false"; the flag the routes test is
\* set for every other request
StoreOnlyWhenPublic ==
  /\ storeCall # "none" => privateField = "false"
  /\ (pc # "start" /\ mode # "none") => (keepPrivate <=> privateField # "false")

\* a pokemon_card request that sent private=false and whose image was stored
CardStored ==
  /\ route = "stream" /\ mode = "pokemon_card" /\ privateField = "false"
  /\ storeCall = "done" /\ pc = "done"
  /\ Len(Terminals) = 1 /\ Terminals[1].imageUrl = BlobUrl

\* a form parseForm throws on whatever file it carries: the image is missing
\* in a mode other than the two no-upload modes, or one of the three enums
\* has a value outside it
Rejectable(f) ==
  \/ f.generationMode \notin AuxModes /\ ~f.image
  \/ ~f.size \/ ~f.styleStrength \/ f.generationMode \notin Modes
\* parseForm threw on the form that was read: no generationMode was bound
Rejected == form # NoForm /\ (mode = "none" \/ Rejectable(form))

\* C15: once parseForm has rejected the form, no auxiliary call, no image
\* call and no blob-store call has been made or is ever made; the handler has
\* ended; every terminal event of the stream is an error, there is exactly
\* one unless the client had cancelled before, and it carries the message of
\* parseForm unless the timeout had closed the stream before.  The
\* non-streaming route answers 400 with no call made.
RejectedMakesNoCall ==
  Rejected =>
    /\ pc = "done"
    /\ auxCall = "none" /\ imgCall = "none" /\ storeCall = "none" /\ calls = <<>>
    /\ route = "stream" =>
         /\ \A i \in 1..Len(Terminals) : Terminals[i].type = "error"
         /\ ~cancelled => Len(Terminals) = 1
         /\ (~cancelled /\ ~timeoutFired) =>
               Terminals[1].message \in {MsgMissingImage, MsgZod}
    /\ route = "plain" => response.status = "400"

\* a transform request whose file is of a refused type or too large
BadFileRejected ==
  /\ route = "stream" /\ pc = "done" /\ mode = "none"
  /\ form.generationMode = "transform" /\ form.image /\ form.size /\ form.styleStrength
  /\ Terminals = <<ErrorEv(MsgZod)>>
  /\ auxCall = "none" /\ imgCall = "none" /\ storeCall = "none"

\* a transform or add_sackboy form that came without an image has made no
\* image call, its handler has ended, and what it sent last is an error
UploadWithoutImageFails ==
  (form # NoForm /\ form.generationMode \in UploadModes /\ ~form.image) =>
    /\ pc = "done" /\ imgCall = "none" /\ calls = <<>>
    /\ (route = "stream" /\ ~cancelled) =>
          /\ Len(Terminals) = 1 /\ Terminals[1].type = "error"
    /\ route = "plain" => response.status = "400"

\* C16: the image is required exactly in the modes transform and
\* add_sackboy.  A form of one of these modes without an image is never
\* followed by an image call and ends in an error.  A random_crypto or
\* pokemon_card form without an image, its enums valid, passes parseForm (its
\* mode and privacy flag are bound) and the step that parsed it starts the
\* auxiliary call, unless the API key is not configured or the stream is no
\* longer writable.
ImageRequiredByMode ==
  [][ /\ UploadWithoutImageFails'
      /\ ( /\ route = "stream" /\ pc = "form"
           /\ form'.generationMode \in AuxModes /\ ~form'.image
           /\ form'.size /\ form'.styleStrength )
         => /\ mode' = form'.generationMode
            /\ \/ pc' = "aux_fetch" /\ auxCall' = "inflight"
               \/ Writable /\ events' = Append(events, ErrorEv(MsgNoKey))
               \/ ~Writable /\ pc' = "done" ]_vars

\* a pokemon_card request without an image whose auxiliary call is in flight
CardWithoutImageCalls ==
  /\ route = "stream" /\ pc = "aux_fetch" /\ auxCall = "inflight"
  /\ mode = "pokemon_card" /\ form.generationMode = "pokemon_card" /\ ~form.image

\* C17: validateUpload returns a message for every file whose type is not
\* one of image/png, image/jpeg, image/webp, whatever its size, and for every
\* file of more than 8*1024*1024 bytes, whatever its type; it returns null
\* exactly when the type is one of the three and the size is at most
\* 8*1024*1024
ValidateUploadExact ==
  clientVerdict.done =>
    /\ upload.type \notin {"image/png", "image/jpeg", "image/webp"}
         => clientVerdict.message # <<>>
    /\ upload.size > 8 * 1024 * 1024 => clientVerdict.message # <<>>
    /\ clientVerdict.message = <<>>
         <=> /\ upload.type \in {"image/png", "image/jpeg", "image/webp"}
             /\ upload.size <= 8 * 1024 * 1024

\* a WebP file of exactly 8 MB was accepted
CeilingAccepted ==
  /\ clientVerdict.done /\ clientVerdict.message = <<>>
  /\ upload.type = "image/webp" /\ upload.size = 8 * 1024 * 1024

\* C18: for every file and every generation mode validateUpload returns
\* null if and only if parseForm accepts the file
ClientServerAgree ==
  (clientVerdict.done /\ serverVerdict.done) =>
     (clientVerdict.message = <<>> <=> serverVerdict.message = <<>>)

\* how often a piece occurs in a text, and whether a text holds another
Count(text, piece) == Cardinality({i \in 1..Len(text) : text[i] = piece})
Contains(text, sub) ==
  \E i \in 1..(Len(text) - Len(sub) + 1) : SubSeq(text, i, i + Len(sub) - 1) = sub
\* the modes C19 and C20 speak of
DefaultMode == ModeOf(options) \in {"transform", "add_sackboy"}

\* C19 as stated: whatever the options, the prompt either version returns
\* holds the sentence 'No text, no logos, no watermarks, no trademarks.'
\* exactly once
NoTextExactlyOnce ==
  DefaultMode =>
    /\ built.done => Count(built.text, SentenceNoText) = 1
    /\ builtCustomFirst.done => Count(builtCustomFirst.text, SentenceNoText) = 1

\* C19: without a custom prompt (absent, empty or blank) the prompt either
\* version returns holds the sentence exactly once.  With a custom prompt,
\* src/lib/prompt.ts returns it once more than the custom text holds it, and
\* the custom-first version returns it as often as the custom text holds it,
\* not at all for a text that does not hold it.
NoTextOnceWithoutCustom ==
  DefaultMode =>
    /\ built.done =>
         Count(built.text, SentenceNoText) =
           1 + (IF HasCustom(options)
                THEN Count(options.customPrompt.text, SentenceNoText) ELSE 0)
    /\ builtCustomFirst.done =>
         Count(builtCustomFirst.text, SentenceNoText) =
           (IF HasCustom(options)
            THEN Count(options.customPrompt.text, SentenceNoText) ELSE 1)

\* the custom-first version was given 'make it blue' and returned a prompt
\* without the sentence
CustomFirstDropsNoText ==
  /\ builtCustomFirst.done /\ DefaultMode
  /\ options.customPrompt = [given |-> TRUE, text |-> <<"make it blue">>]
  /\ Count(builtCustomFirst.text, SentenceNoText) = 0

\* C20: when customPrompt is not empty, the prompt buildPrompt returns holds
\* the custom text, holds none of the base sentences of either mode that the
\* custom text does not hold itself, and is the custom text followed by the
\* style-strength sentence and nothing else
CustomTakesPrecedence ==
  \A b \in {built, builtCustomFirst} :
    (b.done /\ HasCustom(options)) =>
      /\ ~b.threw
      /\ Contains(b.text, Trim(options.customPrompt.text))
      /\ \A base \in BaseSentences :
           Count(b.text, base) = Count(options.customPrompt.text, base)
      /\ b.text =
           Trim(options.customPrompt.text) \o <<Space, StyleClause(options.styleStrength)>>

\* the sentence each strength stands for
StrengthSentence ==
  [low |-> "Subtle Sackboy stylisation; delicate knit and stitch overlay without overpowering realism.",
   medium |-> "Moderate Sackboy stylisation; clear burlap and stitched plush qualities visible.",
   high |-> "Strong Sackboy stylisation; pronounced knit textures, bold seams, and toy-like craft details."]

\* C21: without a custom prompt, the prompt either version returns holds
\* the sentence of the given styleStrength once and the sentence of no other
\* strength, holds the diorama sentence once when diorama is true, and holds
\* no sentence with the word diorama when it is false
StrengthAndDioramaClauses ==
  \A b \in {built, builtCustomFirst} :
    (b.done /\ ~b.threw /\ ~HasCustom(options)) =>
      /\ \A st \in Strengths :
           Count(b.text, StrengthSentence[st]) =
             (IF st = options.styleStrength THEN 1 ELSE 0)
      /\ options.diorama => Count(b.text, SentenceDiorama) = 1
      /\ ~options.diorama => \A d \in DioramaSentences : Count(b.text, d) = 0

\* the example of the specification: transform, high, no diorama, no custom
\* prompt
HighWithoutDiorama ==
  /\ built.done /\ builtCustomFirst.done
  /\ options.generationMode = "transform" /\ options.styleStrength = "high"
  /\ ~options.diorama /\ ~options.customPrompt.given
  /\ Count(built.text, StrengthSentence.high) = 1
  /\ Count(built.text, SentenceDiorama) = 0

\* C22: buildPrompt throws whenever the generation mode is random_crypto or
\* pokemon_card, whatever the other options, and never throws for transform
\* and add_sackboy
ThrowsForExternalModes ==
  \A b \in {built, builtCustomFirst} :
    b.done => (b.threw <=> ModeOf(options) \in {"random_crypto", "pokemon_card"})

\* C23: a handler that was delivered an error event and has ended has
\* alerted the message of that event, and has set no stylized image
ErrorEventAlerted ==
  \A i \in 1..Len(handlers) :
    (handlers[i].stage = "done" /\ handlers[i].errors # <<>>) =>
       /\ \E k \in 1..Len(page.alerts) : page.alerts[k] = handlers[i].errors[1]
       /\ handlers[i].shown = <<>>

\* the generations that have posted their form and not ended
Posted == {i \in 1..Len(handlers) : handlers[i].stage \in {"fetching", "reading"}}

\* C27: on one page at most one generation has a request in flight
OneGenerationInFlight == Cardinality(Posted) <= 1

\* C25 as stated: the relay attempts to persist the image only after the
\* complete event has been emitted
PersistAfterComplete ==
  (route = "stream" /\ storeCall # "none") =>
     \E i \in 1..Len(events) : events[i].type = "complete"

\* C26 as stated: no code path enqueues an event on the output stream, or
\* closes it, after the relay has closed it
NoWriteAfterClose == route = "stream" => ~(closed /\ lateWrite)

\* the partial frames among the lines the read loop has been given, and the
\* partial events it has emitted
IsPartialLine(line) ==
  /\ StartsWith(line, DataPrefix)
  /\ LET data == ParseJSON(Trim(SubSeq(line, 7, Len(line)))) IN data.ok /\ data.type = "P"
PartialLines == SelectSeq(Front(Split(received)), IsPartialLine)
PartialEvents == SelectSeq(events, LAMBDA e : e.type = "partial")

\* C28 as stated: the partial event of a partial frame that supplies
\* partial_image_index, the value 0 included, carries it as partialIndex
PartialIndexFromUpstream ==
  \A k \in 1..Len(PartialEvents) :
    k <= Len(PartialLines) =>
      LET line == PartialLines[k]
          data == ParseJSON(Trim(SubSeq(line, 7, Len(line))))
      IN  data.partial_image_index # NoIndex
            => PartialEvents[k].partialIndex = data.partial_image_index

\* C29: the read loop has emitted one event for each newline-terminated line
\* that is a partial or completed frame, in the order of the lines (a
\* partial event with the image of a partial frame, the "Finalizing" event
\* for a completed frame); and a request whose body has ended without a
\* newline-terminated completed frame has ended in an error event, the bytes
\* after the last newline being dropped unparsed
LinesOnceInOrder ==
  /\ [] ((route = "stream" /\ pc = "reading") =>
          /\ Len(LoopEvents) = Len(KeptLines)
          /\ \A k \in 1..Len(LoopEvents) :
               k <= Len(KeptLines) =>
                 LET line == KeptLines[k]
                     data == ParseJSON(Trim(SubSeq(line, 7, Len(line))))
                 IN  IF data.type = "P"
                     THEN /\ LoopEvents[k].type = "partial"
                          /\ LoopEvents[k].imageBase64 = DataUrl(data.b64_json)
                     ELSE /\ LoopEvents[k].type = "progress"
                          /\ LoopEvents[k].message = MsgFinalizing(mode))
  /\ [][ (pc = "reading" /\ pc' = "done" /\ CompletedLines = <<>>) =>
           /\ Len(Terminals') = 1 /\ Terminals'[1].type = "error"
           /\ LoopEvents' = LoopEvents ]_vars

\* the body was a partial frame and a completed frame without its newline,
\* and all of it has been read: the partial event is out, the completed
\* frame waits in the buffer, unparsed, for the end of the body
UnterminatedCompletedDropped ==
  /\ route = "stream" /\ pc = "reading" /\ upstream = <<>>
  /\ received = Join(<<LinePartial, LineCompleted>>, FALSE)
  /\ buffer = LineCompleted
  /\ Len(LoopEvents) = 1 /\ LoopEvents[1].type = "partial"
  /\ finalImage = NoImage /\ Terminals = <<>>

\* the sum of a sequence of numbers
RECURSIVE SumOf(_)
SumOf(sq) == IF sq = <<>> THEN 0 ELSE Head(sq) + SumOf(Tail(sq))

ImagesOf(r) == IF r = 1 THEN {"a", "c"} ELSE {"b", "d"}
PeerPartials(r) == SelectSeq(streams[r].events, LAMBDA e : e.type = "partial")

\* C24: of two relay requests running at once, every step changes the
\* stream and the variables of one request only and leaves the buffer, the
\* partial counter, the current progress, the timers, the abort signal, the
\* events and the position of the other as they were; the events of a
\* request carry images of its own upstream body only, its partial events
\* are counted from 1 without a gap, and it has at most one terminal event
NoSharedState ==
  /\ [][ \E r \in Requests : \A q \in Requests \ {r} :
           streams'[q] = streams[q] /\ locals'[q] = locals[q] ]_vars
  /\ [] \A r \in Requests :
          /\ \A i \in 1..Len(streams[r].events) :
               streams[r].events[i].imageBase64 # <<>> =>
                 \E img \in ImagesOf(r) : streams[r].events[i].imageBase64 = DataUrl(img)
          /\ \A k \in 1..Len(PeerPartials(r)) :
               PeerPartials(r)[k].message = MsgPartial("transform", k)
          /\ Len(SelectSeq(streams[r].events, IsTerminal)) <= 1

\* request 1 was timed out while it read its body, after its partial event;
\* request 2, reading at the same time, went on to its complete event
OneTimedOutOtherCompleted ==
  /\ streams # <<>>
  /\ streams[1].pc = "done" /\ streams[2].pc = "done"
  /\ Len(PeerPartials(1)) = 1
  /\ Last(streams[1].events) = ErrorEv(MsgTimeout)
  /\ Len(PeerPartials(2)) = 1
  /\ Last(streams[2].events) = CompleteEv("d", NoUrl)

====
